---- MODULE Spec2Model ----
(***************************************************************************)
(* Plan lifecycle of piloto_v2: the send pipeline (src/web/routes.py), the *)
(* run store and chat-state repo (src/persistence/sqlite_repos.py), the    *)
(* background runner (src/agent/plan_background_runner.py) and startup     *)
(* recovery (src/lifecycle/recovery.py, src/main.py).                      *)
(*                                                                         *)
(* Scheduling.  Every request handler that changes state is an `async def` *)
(* without a suspension point, so a handler is one atomic step of the      *)
(* event loop.  run_plan_in_background is an asyncio task: its prologue    *)
(* (up to the await of wait_for) and its epilogue (after the await, with   *)
(* the finally block) are one step each.  execute_plan_run runs in a       *)
(* worker thread (asyncio.to_thread) and interleaves with the loop.        *)
(***************************************************************************)
EXTENDS Integers, FiniteSets, Sequences, TLC

\* ---- bounds -------------------------------------------------------------
MaxRuns == 2          \* run ids that plan_run_store.create may hand out
MaxChats == 2         \* chat ids that MemoryStore may hand out (one per process start)
MaxCount == 2         \* saturation of the observation counters
MaxNodes == 5         \* steps of a plan, substeps included
MaxConsults == 2      \* calls of the reasoner that are followed within one step

\* ---- program constants ----------------------------------------------------
MAX_ATTEMPTS_PER_COMMAND_STEP == 3

RunIds == 1..MaxRuns
ChatIds == 1..MaxChats

\* ---- values -------------------------------------------------------------
NoRun == 0            \* Python None where a run id is expected
Nil == "nil"          \* Python None where a string is expected

AbsentRun ==
    [chat_id |-> 0, status |-> "absent", last_event |-> Nil,
     current_step_path |-> Nil, plan |-> FALSE, error |-> Nil]

EmptyState ==
    [pending_run_id |-> NoRun, active_run_id |-> NoRun, last_run_id |-> NoRun,
     last_run_status |-> Nil, last_run_ts |-> Nil]

\* the last step did not call try_mark_queued from a request handler
NoHttp == [op |-> Nil, chat_id |-> 0, text |-> Nil, recent |-> FALSE,
           mode |-> Nil, run_id |-> NoRun, status |-> Nil]

Inc(n) == IF n < MaxCount THEN n + 1 ELSE MaxCount

\* the inputs of api_send: <<class of the message, has_tool, llm, raises, recent>>
\*   command: _extract_command matches; has_tool: the project has an active
\*   tool with POST /command; llm: the model returns a valid mcp_request tool
\*   call; raises: try_mark_queued raises; recent: now - last_run_ts < 120000
SendInputs ==
    {<<"command", TRUE, FALSE, FALSE, FALSE>>, <<"command", FALSE, FALSE, FALSE, FALSE>>,
     <<"confirm", FALSE, FALSE, FALSE, FALSE>>, <<"confirm", FALSE, FALSE, FALSE, TRUE>>,
     <<"confirm", FALSE, FALSE, TRUE, TRUE>>,
     <<"cancel", FALSE, FALSE, FALSE, FALSE>>, <<"cancel", FALSE, FALSE, FALSE, TRUE>>,
     <<"text", FALSE, TRUE, FALSE, FALSE>>, <<"text", FALSE, FALSE, FALSE, FALSE>>}

VARIABLES
    phase,        \* "serving" (lifespan yielded), "stopping" (loop teardown), "down"
    chats,        \* MemoryStore.chats: the chat ids held in RAM
    nchats,       \* how many chat ids were handed out so far (uuid4: never reused)
    runs,         \* table plan_runs: run id -> row, status "absent" = no row
    chat_state,   \* table chat_state: chat id -> row (NULL columns as NoRun/Nil)
    task,         \* asyncio task of run_plan_in_background per run
    worker,       \* thread of execute_plan_run per run
    http,         \* the request of the last step and its response, if its reply is
                  \* one of Observed
    returned,     \* the run whose run_plan_in_background returned in the last step
    cas_true,     \* observation: how often try_mark_queued returned True per run
    started,      \* observation: how often create_task was called per run
    messages      \* Chat.messages of the chat of each run, kept in RAM: the step and
                  \* terminal envelopes and recovery notices about that run, oldest
                  \* first

\* one call of execute_plan_run (src/agent/plan_executor.py)
VARIABLES
    plan_run,     \* PlanRun: steps (each step written as the list of its substeps),
                  \* status, current_step_path
    steps,        \* per step path: the PlanStep fields status and error
    gen,          \* the paths the two loops at 82-85 have still to yield
    step,         \* the fields of the step at current_step_path if it is an mcp_call
    result_raw,   \* result_raw of the step at current_step_path, with the status
                  \* code it came with
    xpc,          \* where the executor is: off, ready, running, invoking, returned, stored
    visited,      \* observation: the paths yielded so far, in order
    run_row       \* the run row as the runner writes it when the executor returns

\* one call of invoke_mcp_with_emit (src/agent/plan_background_runner.py)
VARIABLES
    call,         \* the arguments method and path
    body,         \* the argument body: the cmd text of the step
    attempt,      \* the local attempt
    current_body, \* the local current_body: the cmd text sent next
    dispatched,   \* observation: the requests sent to the tool server, in order,
                  \* each with its cmd and how it ended
    consulted,    \* observation: how often reason_about_command_failure was called
    last_emit,    \* the kind and step_path of the last emit
    ret,          \* the pair returned: status code and payload
    ipc           \* where the call is: off, called, loop, returned, raised

\* one api_send request, statement by statement, next to one poll of
\* GET /api/chats/{chat_id}/messages (src/web/routes.py).  api_send runs on the
\* event loop; api_get_messages is a plain `def`, which the framework runs in a
\* thread of its pool, so its statements interleave with those of api_send.
VARIABLES
    user_text,    \* class of the message: command, confirm or text
    spc,          \* where api_send is: entry (626), state_read, user_logged, tool_call,
                  \* accepted, created, drafted, pending_done, done, failed (500), killed
    seen_state,   \* the local `state` of api_send: read yet, and its pending_run_id
    chat_log,     \* Chat.messages of the chat: user, assistant, plan_proposed
    draft,        \* the row of plan_runs this request inserts: status, last_event, plan
    chat_pending, \* chat_state.pending_run_id: none, old (an earlier run), new (this draft)
    branch,       \* which path proposes the plan: fast (654-692) or tool (1041-1174)
    raw_call,     \* the tool call of the model: whether its other arguments are
                  \* valid, its route, and its body as the model sent it
    tool_body,    \* the local `body` the step is built from
    poll_pc,      \* where api_get_messages is: idle, state_read, done
    poll_seen     \* what api_get_messages returns: state.pending_run_id and whether
                  \* the last message is the plan proposal

\* the event loop between the worker thread and the chat log
\* (src/agent/plan_background_runner.py)
VARIABLES
    callbacks     \* the loop's queue of calls scheduled with call_soon_threadsafe:
                  \* the add_message calls not run yet, oldest first, each with
                  \* its run and the kind of its envelope

life_vars == <<phase, chats, nchats, runs, chat_state, task, worker, http, returned,
               cas_true, started, messages>>

exec_vars == <<plan_run, steps, gen, step, result_raw, xpc, visited, run_row>>

invoke_vars == <<call, body, attempt, current_body, dispatched, consulted,
                 last_emit, ret, ipc>>

send_vars == <<user_text, spc, seen_state, chat_log, draft, chat_pending, branch,
               raw_call, tool_body, poll_pc, poll_seen>>

emit_vars == <<callbacks>>

\* what the actions of the request/runner lifecycle leave alone
other_vars == <<exec_vars, invoke_vars, send_vars, emit_vars>>

vars == <<life_vars, exec_vars, invoke_vars, send_vars, emit_vars>>

\* ---- SqlitePlanRunStore -------------------------------------------------

\* create: INSERT of a draft row without plan_json; the id is the next free one
create(rs, run_id, chat_id) ==
    [rs EXCEPT ![run_id] =
        [chat_id |-> chat_id, status |-> "draft", last_event |-> Nil,
         current_step_path |-> Nil, plan |-> FALSE, error |-> Nil]]

get(rs, run_id) ==
    IF run_id \in RunIds /\ rs[run_id].status # "absent" THEN rs[run_id] ELSE AbsentRun

\* update: only the arguments that are not None are written; no row, no change
update(rs, run_id, status, current_step_path, last_event, plan, error) ==
    IF run_id \notin RunIds \/ rs[run_id].status = "absent" THEN rs
    ELSE [rs EXCEPT ![run_id] =
            [chat_id |-> @.chat_id,
             status |-> IF status # Nil THEN status ELSE @.status,
             current_step_path |->
                 IF current_step_path # Nil THEN current_step_path ELSE @.current_step_path,
             last_event |-> IF last_event # Nil THEN last_event ELSE @.last_event,
             plan |-> IF plan THEN TRUE ELSE @.plan,
             error |-> IF error # Nil THEN error ELSE @.error]]

\* mutant: the UPDATE without `AND status = 'draft'`
try_mark_queued_any(rs, run_id) ==
    IF run_id \in RunIds /\ rs[run_id].status # "absent"
    THEN [ok |-> TRUE,
          runs |-> [rs EXCEPT ![run_id].status = "queued",
                              ![run_id].last_event = "confirm_accepted"]]
    ELSE [ok |-> FALSE, runs |-> rs]

\* try_mark_queued: UPDATE ... WHERE run_id = ? AND status = 'draft'; rowcount == 1
try_mark_queued(rs, run_id) ==
    IF run_id \in RunIds /\ rs[run_id].status = "draft"
    THEN [ok |-> TRUE,
          runs |-> [rs EXCEPT ![run_id].status = "queued",
                              ![run_id].last_event = "confirm_accepted"]]
    ELSE [ok |-> FALSE, runs |-> rs]

Drafts(rs, chat_id) ==
    {r \in RunIds : rs[r].status = "draft" /\ rs[r].chat_id = chat_id}

\* get_latest_draft_run_id: ORDER BY updated_ts DESC LIMIT 1.  A draft row is
\* written only by create and the update that follows it in the same handler,
\* and ids are handed out in creation order, so the latest draft has the
\* largest id.
get_latest_draft_run_id(rs, chat_id) ==
    IF Drafts(rs, chat_id) = {} THEN NoRun
    ELSE CHOOSE r \in Drafts(rs, chat_id) : \A q \in Drafts(rs, chat_id) : q <= r

\* ---- SqliteChatStateRepo ------------------------------------------------

\* set_state: upsert of exactly the columns passed as keyword arguments
set_state(cs, chat_id, upd) ==
    LET old == cs[chat_id]
        val(k) == IF k \in DOMAIN upd THEN upd[k] ELSE old[k]
    IN [cs EXCEPT ![chat_id] =
          [pending_run_id |-> val("pending_run_id"),
           active_run_id |-> val("active_run_id"),
           last_run_id |-> val("last_run_id"),
           last_run_status |-> val("last_run_status"),
           last_run_ts |-> val("last_run_ts")]]

\* ---- send pipeline (src/web/routes.py) ----------------------------------

\* the state a handler reads and writes, threaded through its statements
Here == [runs |-> runs, chat_state |-> chat_state, task |-> task,
         cas_true |-> cas_true, started |-> started]

Resp(mode, run_id, status) == [mode |-> mode, run_id |-> run_id, status |-> status]

NextRun(rs) == Cardinality({r \in RunIds : rs[r].status # "absent"}) + 1

\* mutant: a handoff that does not look at the result of try_mark_queued
cas_unchecked(st, run_id, raises) == [ok |-> TRUE, st |-> st]

\* the guarded call `ok = False; try: ok = try_mark_queued(id) except Exception`
\* raises: the store raised (sqlite3 error), ok stays False
cas(st, run_id, raises) ==
    LET res == try_mark_queued(st.runs, run_id) IN
    IF raises \/ ~res.ok THEN [ok |-> FALSE, st |-> st]
    ELSE [ok |-> TRUE,
          st |-> [st EXCEPT !.runs = res.runs,
                            !.cas_true = [@ EXCEPT ![run_id] = Inc(@)]]]

\* mutant: the handoff that leaves pending_run_id alone
handoff_state_keep_pending(cs, chat_id, run_id) ==
    set_state(cs, chat_id, [active_run_id |-> run_id])

\* store.set_state(chat_id, pending_run_id=None, active_run_id=run_id)
handoff_state(cs, chat_id, run_id) ==
    set_state(cs, chat_id, [pending_run_id |-> NoRun, active_run_id |-> run_id])

\* _start_run_from_draft: live is MemoryStore.chats (add_message raises
\* ValueError for a chat that is not in RAM, and the handler ends with 500)
start_run_from_draft(st, run_id, live, raises) ==
    LET r == get(st.runs, run_id) IN
    IF r.status = "absent" THEN [st |-> st, reply |-> Resp("run_not_found", run_id, Nil)]
    ELSE IF r.status \notin {"draft", "queued"}
    THEN [st |-> st, reply |-> Resp("run_not_ready", run_id, r.status)]
    ELSE IF ~r.plan THEN [st |-> st, reply |-> Resp("run_without_plan", run_id, r.status)]
    ELSE
      LET c1 == IF r.status = "draft" THEN cas(st, run_id, raises)
                ELSE [ok |-> TRUE, st |-> st]
      IN
      IF ~c1.ok
      THEN [st |-> c1.st,
            reply |-> Resp("run_not_draft", run_id, get(c1.st.runs, run_id).status)]
      ELSE
        LET rs2 == update(c1.st.runs, run_id, Nil, Nil, "run_start_queued", FALSE, Nil) IN
        IF r.chat_id \notin live
        THEN [st |-> [c1.st EXCEPT !.runs = rs2],
              reply |-> Resp("internal_error", run_id, Nil)]
        ELSE [st |-> [c1.st EXCEPT
                        !.runs = rs2,
                        !.chat_state = handoff_state(@, r.chat_id, run_id),
                        !.task = [@ EXCEPT ![run_id] = "created"],
                        !.started = [@ EXCEPT ![run_id] = Inc(@)]],
              reply |-> Resp("queued", run_id, "queued")]

\* the draft creation shared by the direct-command fast path (675-692) and
\* the tool-call path (1140-1174): create, update(plan), set pending, reply
propose_plan(st, chat_id) ==
    LET id == NextRun(st.runs)
        rs1 == create(st.runs, id, chat_id)
        rs2 == update(rs1, id, "draft", Nil, "plan_draft", TRUE, Nil)
    IN [st |-> [st EXCEPT !.runs = rs2,
                          !.chat_state = set_state(@, chat_id, [pending_run_id |-> id])],
        reply |-> Resp("plan_draft", id, "draft")]

\* mutant: a failed confirmation that still marks the run active
confirm_failed_marks_active(st, chat_id, run_id) ==
    [st |-> [st EXCEPT !.chat_state = handoff_state(@, chat_id, run_id)],
     reply |-> Resp("confirm_idempotent", run_id, get(st.runs, run_id).status)]

\* the reply of a confirmation whose CAS did not succeed (736-753, 829-844)
confirm_failed(st, chat_id, run_id) ==
    [st |-> st,
     reply |-> Resp("confirm_idempotent", run_id, get(st.runs, run_id).status)]

\* the accepted confirmation: set_state, then _start_run_from_draft (755-761, 846-857)
confirm_accepted(st, chat_id, run_id, live) ==
    start_run_from_draft(
        [st EXCEPT !.chat_state = handoff_state(@, chat_id, run_id)],
        run_id, live, FALSE)

\* mutant: a cancel that clears pending_run_id only
cancel_pending_only(st, chat_id) ==
    [st |-> [st EXCEPT !.chat_state =
                set_state(@, chat_id, [pending_run_id |-> NoRun])],
     reply |-> Resp("pending_cancelled", NoRun, Nil)]

\* api_send, cancel word with a pending run (859-871): the state is cleared,
\* the run store is not touched
cancel_pending(st, chat_id) ==
    [st |-> [st EXCEPT !.chat_state =
                set_state(@, chat_id, [pending_run_id |-> NoRun,
                                       active_run_id |-> NoRun])],
     reply |-> Resp("pending_cancelled", NoRun, Nil)]

\* mutant: a late confirmation that drops the active run from the chat state
confirm_late_active_clears(st, chat_id, active_run_id) ==
    [st |-> [st EXCEPT !.chat_state = set_state(@, chat_id, [active_run_id |-> NoRun])],
     reply |-> Resp("confirm_late_active", active_run_id, Nil)]

\* api_send, confirm or cancel word with no pending run and an active one
\* (708-717): a reply that names the active run
confirm_late_active(st, chat_id, active_run_id) ==
    [st |-> st, reply |-> Resp("confirm_late_active", active_run_id, Nil)]

\* mutant: any other message drops the pending plan
pending_wait_drops(st, chat_id, pending_run_id) ==
    [st |-> [st EXCEPT !.chat_state = set_state(@, chat_id, [pending_run_id |-> NoRun])],
     reply |-> Resp("pending_wait", pending_run_id, Nil)]

\* api_send, a pending run and neither a confirm nor a cancel word (873-877)
pending_wait(st, chat_id, pending_run_id) ==
    [st |-> st, reply |-> Resp("pending_wait", pending_run_id, Nil)]

\* api_send for an existing chat: the whole handler.
\*   text     class of the message (command: _extract_command matches)
\*   has_tool the project has an active tool with POST /command
\*   llm      TRUE if the model returns a valid mcp_request tool call
\*   raises   try_mark_queued raises
\*   recent   now - last_run_ts < 2 minutes (763-783)
send(st, chat_id, text, has_tool, llm, raises, recent, live) ==
    LET state == st.chat_state[chat_id]
        pending_run_id == state.pending_run_id
        active_run_id == state.active_run_id
    IN
    IF text = "command"
    THEN IF ~has_tool THEN [st |-> st, reply |-> Resp("no_command_mcp", NoRun, Nil)]
         ELSE propose_plan(st, chat_id)
    ELSE IF text \in {"confirm", "cancel"} /\ pending_run_id = NoRun
    THEN IF active_run_id # NoRun
         THEN confirm_late_active(st, chat_id, active_run_id)
         ELSE
           LET recovered_run_id == get_latest_draft_run_id(st.runs, chat_id) IN
           IF recovered_run_id # NoRun /\ text = "confirm"
           THEN LET c1 == cas(st, recovered_run_id, raises) IN
                IF ~c1.ok THEN confirm_failed(c1.st, chat_id, recovered_run_id)
                ELSE confirm_accepted(c1.st, chat_id, recovered_run_id, live)
           ELSE IF state.last_run_id # NoRun /\ state.last_run_ts # Nil /\ recent
           THEN [st |-> st,
                 reply |-> Resp("confirm_duplicate_recent", state.last_run_id,
                                state.last_run_status)]
           ELSE [st |-> st, reply |-> Resp("confirm_orphan", NoRun, Nil)]
    ELSE IF pending_run_id # NoRun
    THEN IF get(st.runs, pending_run_id).status = "absent"
         THEN [st |-> [st EXCEPT !.chat_state =
                          set_state(@, chat_id, [pending_run_id |-> NoRun,
                                                 active_run_id |-> NoRun])],
               reply |-> Resp("pending_missing", NoRun, Nil)]
         ELSE IF text = "confirm"
         THEN LET c1 == cas(st, pending_run_id, raises) IN
              IF ~c1.ok THEN confirm_failed(c1.st, chat_id, pending_run_id)
              ELSE confirm_accepted(c1.st, chat_id, pending_run_id, live)
         ELSE IF text = "cancel" THEN cancel_pending(st, chat_id)
         ELSE pending_wait(st, chat_id, pending_run_id)
    ELSE IF llm THEN propose_plan(st, chat_id)
         ELSE [st |-> st, reply |-> Resp("llm_reply", NoRun, Nil)]

\* TRUE if this input makes the handler create a draft (it needs a free id)
Proposes(st, chat_id, text, has_tool, llm) ==
    \/ text = "command" /\ has_tool
    \/ text = "text" /\ st.chat_state[chat_id].pending_run_id = NoRun /\ llm

\* the replies of the code paths that follow a call of try_mark_queued
AfterCas == {"queued", "confirm_idempotent", "run_cas_failed", "internal_error"}

\* the replies recorded in http: those, and the reply of a cancelled draft
Observed == AfterCas \cup {"pending_cancelled"}

Http(op, chat_id, text, recent, rep) ==
    IF rep.mode \in Observed
    THEN [op |-> op, chat_id |-> chat_id, text |-> text, recent |-> recent,
          mode |-> rep.mode, run_id |-> rep.run_id, status |-> rep.status]
    ELSE NoHttp

api_send(chat_id, text, has_tool, llm, raises, recent) ==
    /\ phase = "serving"
    /\ chat_id \in chats
    /\ Proposes(Here, chat_id, text, has_tool, llm) => NextRun(runs) \in RunIds
    /\ \E res \in {send(Here, chat_id, text, has_tool, llm, raises, recent, chats)} :
       /\ runs' = res.st.runs
       /\ chat_state' = res.st.chat_state
       /\ task' = res.st.task
       /\ cas_true' = res.st.cas_true
       /\ started' = res.st.started
       /\ http' = Http("send", chat_id, text, recent, res.reply)
       /\ returned' = NoRun
    /\ UNCHANGED <<phase, chats, nchats, worker, messages, other_vars>>

\* the request and its response, whatever the reply
Watched(op, chat_id, text, recent, rep) ==
    [op |-> op, chat_id |-> chat_id, text |-> text, recent |-> recent,
     mode |-> rep.mode, run_id |-> rep.run_id, status |-> rep.status]

\* api_send for an existing chat, every reply recorded in http
api_send_watched(chat_id, text, has_tool, llm, raises, recent) ==
    /\ phase = "serving"
    /\ chat_id \in chats
    /\ Proposes(Here, chat_id, text, has_tool, llm) => NextRun(runs) \in RunIds
    /\ \E res \in {send(Here, chat_id, text, has_tool, llm, raises, recent, chats)} :
       /\ runs' = res.st.runs
       /\ chat_state' = res.st.chat_state
       /\ task' = res.st.task
       /\ cas_true' = res.st.cas_true
       /\ started' = res.st.started
       /\ http' = Watched("send", chat_id, text, recent, res.reply)
       /\ returned' = NoRun
    /\ UNCHANGED <<phase, chats, nchats, worker, messages, other_vars>>

\* MemoryStore.delete_project (chat/store.py 128-137) for the project of
\* chat_id: its Chat objects, with their messages, are popped
delete_project(ms, rs, chat_id) ==
    [r \in RunIds |-> IF rs[r].chat_id = chat_id THEN <<>> ELSE ms[r]]

\* DELETE /api/projects/{project_id}, a plain `def` that runs in a thread of
\* the pool
api_delete_project(chat_id) ==
    /\ phase = "serving"
    /\ chat_id \in chats
    /\ chats' = chats \ {chat_id}
    /\ messages' = delete_project(messages, runs, chat_id)
    /\ http' = NoHttp
    /\ returned' = NoRun
    /\ UNCHANGED <<phase, nchats, runs, chat_state, task, worker, cas_true, started,
                   other_vars>>

\* api_send while api_delete_project runs in its thread: MemoryStore has no
\* lock, and the pop of the chat (chat/store.py 134) lands after the handler
\* has stored the user message (652).  The store calls that follow take
\* effect; the next store.add_message raises ValueError, which no branch
\* catches, and the request ends with 500.
api_send_during_delete(chat_id, text, has_tool, llm, raises, recent) ==
    /\ phase = "serving"
    /\ chat_id \in chats
    /\ Proposes(Here, chat_id, text, has_tool, llm) => NextRun(runs) \in RunIds
    /\ \E res \in {send(Here, chat_id, text, has_tool, llm, raises, recent,
                        chats \ {chat_id})} :
       /\ runs' = res.st.runs
       /\ chat_state' = res.st.chat_state
       /\ task' = res.st.task
       /\ cas_true' = res.st.cas_true
       /\ started' = res.st.started
       /\ http' = Watched("send", chat_id, text, recent,
                          Resp("internal_error", res.reply.run_id, Nil))
       /\ returned' = NoRun
    /\ chats' = chats \ {chat_id}
    /\ messages' = delete_project(messages, runs, chat_id)
    /\ UNCHANGED <<phase, nchats, worker, other_vars>>

\* api_send for a chat id that MemoryStore does not hold: 404, nothing written
api_send_unknown_chat(chat_id, text) ==
    /\ phase = "serving"
    /\ chat_id \notin chats
    /\ http' = Http("send", chat_id, text, FALSE, Resp("chat_not_found", NoRun, Nil))
    /\ returned' = NoRun
    /\ UNCHANGED <<phase, chats, nchats, runs, chat_state, task, worker,
                   cas_true, started, messages, other_vars>>

\* POST /api/runs/{run_id}/start
start_run(st, run_id, live, raises) ==
    LET r == get(st.runs, run_id) IN
    IF r.status = "absent" THEN [st |-> st, reply |-> Resp("run_not_found", run_id, Nil)]
    ELSE IF r.status # "draft" THEN [st |-> st, reply |-> Resp("run_status", run_id, r.status)]
    ELSE LET c1 == cas(st, run_id, raises) IN
         IF ~c1.ok
         THEN [st |-> c1.st,
               reply |-> Resp("run_cas_failed", run_id, get(c1.st.runs, run_id).status)]
         ELSE start_run_from_draft(c1.st, run_id, live, FALSE)

api_start_run(run_id, raises) ==
    /\ phase = "serving"
    /\ \E res \in {start_run(Here, run_id, chats, raises)} :
       /\ runs' = res.st.runs
       /\ chat_state' = res.st.chat_state
       /\ task' = res.st.task
       /\ cas_true' = res.st.cas_true
       /\ started' = res.st.started
       /\ http' = Http("start", get(runs, run_id).chat_id, Nil, FALSE, res.reply)
       /\ returned' = NoRun
    /\ UNCHANGED <<phase, chats, nchats, worker, messages, other_vars>>

\* ---- background runner (src/agent/plan_background_runner.py) ------------

\* the keyword arguments of a set_state call whose key set depends on tests
Kwargs(keys, pending, active, id, status, ts) ==
    [k \in keys |->
        CASE k = "pending_run_id" -> pending
          [] k = "active_run_id" -> active
          [] k = "last_run_id" -> id
          [] k = "last_run_status" -> status
          [] OTHER -> ts]

\* lines 107-120: note the run as active unless another run is, drop it from pending
ensure_active(cs, chat_id, run_id) ==
    LET st == cs[chat_id]
        keys == (IF st.active_run_id \in {NoRun, run_id} THEN {"active_run_id"} ELSE {})
                \cup (IF st.pending_run_id = run_id THEN {"pending_run_id"} ELSE {})
    IN IF keys = {} THEN cs
       ELSE set_state(cs, chat_id, Kwargs(keys, NoRun, run_id, NoRun, Nil, Nil))

\* mutant: a cleanup that clears pending_run_id and active_run_id unconditionally
finalize_clear_all(rs, cs, chat_id, run_id) ==
    set_state(cs, chat_id,
        [last_run_id |-> run_id, last_run_status |-> get(rs, run_id).status,
         last_run_ts |-> "now", active_run_id |-> NoRun, pending_run_id |-> NoRun])

\* mutant: a cleanup that forgets active_run_id
finalize_keep_active(rs, cs, chat_id, run_id) ==
    set_state(cs, chat_id,
        [last_run_id |-> run_id, last_run_status |-> get(rs, run_id).status,
         last_run_ts |-> "now"])

\* the finally block (548-592): final status from the store, last_run_*, and
\* active/pending cleared only where they still name this run
finalize(rs, cs, chat_id, run_id) ==
    LET rr == get(rs, run_id)
        final_status == IF rr.status = "absent" THEN "unknown" ELSE rr.status
        st == cs[chat_id]
        keys == {"last_run_id", "last_run_status", "last_run_ts"}
                \cup (IF st.active_run_id = run_id THEN {"active_run_id"} ELSE {})
                \cup (IF st.pending_run_id = run_id THEN {"pending_run_id"} ELSE {})
    IN set_state(cs, chat_id, Kwargs(keys, NoRun, NoRun, run_id, final_status, "now"))

\* prologue of run_plan_in_background (105-184) up to the await at 464
runner_start(run_id) ==
    /\ phase = "serving"
    /\ task[run_id] = "created"
    /\ LET rs1 == update(runs, run_id, "running", Nil, "runner_started", FALSE, Nil)
           rs2 == update(rs1, run_id, Nil, Nil, "run_start", FALSE, Nil)
       IN /\ runs' = rs2
          /\ chat_state' = ensure_active(chat_state, runs[run_id].chat_id, run_id)
    /\ task' = [task EXCEPT ![run_id] = "waiting"]
    /\ worker' = [worker EXCEPT ![run_id] = "ready"]
    /\ http' = NoHttp
    /\ returned' = NoRun
    /\ UNCHANGED <<phase, chats, nchats, cas_true, started, messages, other_vars>>

\* MemoryStore.add_message, for a message about run_id: ValueError when the
\* chat is not in RAM, which every caller modelled here catches
add_message(ms, live, chat_id, run_id, kind) ==
    IF chat_id \in live THEN [ms EXCEPT ![run_id] = Append(@, kind)] ELSE ms

\* mutant: a runner exit that posts no envelope
safe_add_message_dropped(ms, chat_id, run_id, kind) == ms

\* safe_add_message (148-149): add_message through the loop, errors swallowed
safe_add_message(ms, chat_id, run_id, kind) ==
    add_message(ms, chats, chat_id, run_id, kind)

\* emit (202-215), the run record; its envelope is posted by the caller
emit(rs, run_id, kind, step_path) == update(rs, run_id, Nil, step_path, kind, FALSE, Nil)

\* execute_plan_run in the worker thread: the step starts (emit step_start) ...
worker_step_start(run_id) ==
    /\ phase # "down"
    /\ worker[run_id] = "ready"
    /\ runs' = emit(runs, run_id, "step_start", "http_path")
    /\ worker' = [worker EXCEPT ![run_id] = "invoking"]
    /\ messages' = safe_add_message(messages, runs[run_id].chat_id, run_id, "step_start")
    /\ http' = NoHttp
    /\ returned' = NoRun
    /\ UNCHANGED <<phase, chats, nchats, chat_state, task, cas_true, started, other_vars>>

\* mutant: a step that ends without emitting
worker_step_end_silent(run_id, ok) ==
    /\ phase # "down"
    /\ worker[run_id] = "invoking"
    /\ worker' = [worker EXCEPT ![run_id] =
                     IF task[run_id] # "waiting" THEN "idle"
                     ELSE IF ok THEN "returned_done" ELSE "returned_error"]
    /\ http' = NoHttp
    /\ returned' = NoRun
    /\ UNCHANGED <<phase, chats, nchats, runs, chat_state, task, cas_true, started,
                   messages, other_vars>>

\* ... and ends (emit step_ok / step_err): the plan returns done or error to
\* the task if it still waits, else the result is dropped with the thread
worker_step_end(run_id, ok) ==
    /\ phase # "down"
    /\ worker[run_id] = "invoking"
    /\ runs' = emit(runs, run_id, IF ok THEN "step_ok" ELSE "step_err", "http_path")
    /\ worker' = [worker EXCEPT ![run_id] =
                     IF task[run_id] # "waiting" THEN "idle"
                     ELSE IF ok THEN "returned_done" ELSE "returned_error"]
    /\ messages' = safe_add_message(messages, runs[run_id].chat_id, run_id,
                                     IF ok THEN "step_ok" ELSE "step_err")
    /\ http' = NoHttp
    /\ returned' = NoRun
    /\ UNCHANGED <<phase, chats, nchats, chat_state, task, cas_true, started, other_vars>>

\* safe_add_message as the runner defines it (155-156): the add_message call
\* is handed to the loop with call_soon_threadsafe and runs when the loop gets
\* to it
schedule(cb, run_id, kind) == Append(cb, [run_id |-> run_id, kind |-> kind])

\* emit at the start of a step, seen statement by statement: the worker thread
\* updates the run record (203) and schedules the envelope (215)
thread_step_start(run_id) ==
    /\ phase # "down"
    /\ worker[run_id] = "ready"
    /\ runs' = emit(runs, run_id, "step_start", "http_path")
    /\ callbacks' = schedule(callbacks, run_id, "step_start")
    /\ worker' = [worker EXCEPT ![run_id] = "invoking"]
    /\ http' = NoHttp
    /\ returned' = NoRun
    /\ UNCHANGED <<phase, chats, nchats, chat_state, task, cas_true, started, messages,
                   exec_vars, invoke_vars, send_vars>>

\* emit at the end of a step, in the same way
thread_step_end(run_id, ok) ==
    /\ phase # "down"
    /\ worker[run_id] = "invoking"
    /\ runs' = emit(runs, run_id, IF ok THEN "step_ok" ELSE "step_err", "http_path")
    /\ callbacks' = schedule(callbacks, run_id, IF ok THEN "step_ok" ELSE "step_err")
    /\ worker' = [worker EXCEPT ![run_id] =
                     IF task[run_id] # "waiting" THEN "idle"
                     ELSE IF ok THEN "returned_done" ELSE "returned_error"]
    /\ http' = NoHttp
    /\ returned' = NoRun
    /\ UNCHANGED <<phase, chats, nchats, chat_state, task, cas_true, started, messages,
                   exec_vars, invoke_vars, send_vars>>

\* the loop runs the oldest scheduled call: _safe_call(store.add_message, ...)
\* (145-156)
loop_callback ==
    /\ phase = "serving"
    /\ callbacks # <<>>
    /\ LET cb == Head(callbacks) IN
       messages' = safe_add_message(messages, runs[cb.run_id].chat_id, cb.run_id, cb.kind)
    /\ callbacks' = Tail(callbacks)
    /\ http' = NoHttp
    /\ returned' = NoRun
    /\ UNCHANGED <<phase, chats, nchats, runs, chat_state, task, worker, cas_true,
                   started, exec_vars, invoke_vars, send_vars>>

Returned == {"returned_done", "returned_error"}

\* how the task ends: the CancelledError exit re-raises (531), so the host sees
\* a cancelled task; the other exits return normally
task_outcome(envelope) == IF envelope = "run_cancelled" THEN "cancelled" ELSE "finished"

\* the epilogue: one of the four exits of the try (463-546) with its update and
\* its envelope, then the finally
epilogue(run_id, status, last_event, envelope, plan, error) ==
    LET rs1 == update(runs, run_id, status, Nil, last_event, plan, error) IN
    /\ runs' = rs1
    /\ messages' = safe_add_message(messages, runs[run_id].chat_id, run_id, envelope)
    /\ chat_state' = finalize(rs1, chat_state, runs[run_id].chat_id, run_id)
    /\ task' = [task EXCEPT ![run_id] = task_outcome(envelope)]
    /\ worker' = [worker EXCEPT ![run_id] = IF @ \in Returned THEN "idle" ELSE @]
    /\ http' = NoHttp
    /\ returned' = run_id
    /\ UNCHANGED <<phase, chats, nchats, cas_true, started, other_vars>>

\* wait_for returned the plan (475-500)
runner_done(run_id) ==
    /\ phase = "serving"
    /\ task[run_id] = "waiting"
    /\ worker[run_id] \in Returned
    /\ epilogue(run_id, IF worker[run_id] = "returned_error" THEN "error" ELSE "done",
                "run_done", "run_done", TRUE, Nil)

\* mutant: the timeout exit recorded as the generic exception exit
runner_timeout_as_error(run_id) ==
    /\ phase = "serving"
    /\ task[run_id] = "waiting"
    /\ worker[run_id] \notin Returned
    /\ epilogue(run_id, "error", "run_error", "run_error", FALSE, "exception")

\* asyncio.TimeoutError (502-515): the thread is not stopped
runner_timeout(run_id) ==
    /\ phase = "serving"
    /\ task[run_id] = "waiting"
    /\ worker[run_id] \notin Returned
    /\ epilogue(run_id, "error", "run_timeout", "run_timeout", FALSE,
                "TimeoutError: plan_timeout")

\* mutant: a cancellation that ends the task at once, with no except clause
\* and no finally
runner_cancelled_unrecorded(run_id) ==
    /\ phase = "stopping"
    /\ task[run_id] = "waiting"
    /\ task' = [task EXCEPT ![run_id] = "cancelled"]
    /\ http' = NoHttp
    /\ returned' = run_id
    /\ UNCHANGED <<phase, chats, nchats, runs, chat_state, worker, cas_true, started,
                   messages, other_vars>>

\* asyncio.CancelledError (517-531): recorded, finalized, re-raised.  Nothing
\* in the program cancels the task; the loop teardown at shutdown does.
runner_cancelled(run_id) ==
    /\ phase = "stopping"
    /\ task[run_id] = "waiting"
    /\ epilogue(run_id, "error", "runner_cancelled", "run_cancelled", FALSE,
                "CancelledError")

\* any other exception of the try body (533-546)
runner_error(run_id) ==
    /\ phase = "serving"
    /\ task[run_id] = "waiting"
    /\ worker[run_id] \in Returned
    /\ epilogue(run_id, "error", "run_error", "run_error", FALSE, "exception")

\* ---- process lifetime (src/main.py, src/lifecycle/recovery.py) ----------

\* graceful shutdown: the loop teardown cancels every task; a task that has
\* not run yet is dropped without entering its body
shutdown ==
    /\ phase = "serving"
    /\ nchats < MaxChats
    /\ \E r \in RunIds : task[r] = "waiting"
    /\ phase' = "stopping"
    /\ task' = [r \in RunIds |-> IF task[r] = "created" THEN "none" ELSE task[r]]
    /\ http' = NoHttp
    /\ returned' = NoRun
    /\ UNCHANGED <<chats, nchats, runs, chat_state, worker, cas_true, started, messages, other_vars>>

\* the process ends (killed, or the teardown is complete): tasks, threads and
\* MemoryStore are gone, the SQLite tables stay
kill ==
    /\ \/ phase = "serving" /\ nchats < MaxChats
       \/ phase = "stopping" /\ \A r \in RunIds : task[r] # "waiting"
    /\ phase' = "down"
    /\ chats' = {}
    /\ task' = [r \in RunIds |-> "none"]
    /\ worker' = [r \in RunIds |-> "idle"]
    /\ messages' = [r \in RunIds |-> <<>>]
    /\ http' = NoHttp
    /\ returned' = NoRun
    /\ UNCHANGED <<nchats, runs, chat_state, cas_true, started, other_vars>>

\* mutant: a recovery that marks every row, whatever its status
recover_all_runs(rs) ==
    [r \in RunIds |->
        IF rs[r].status # "absent"
        THEN [rs[r] EXCEPT !.status = "error",
                           !.last_event = "recovered_after_reload",
                           !.error = "reload"]
        ELSE rs[r]]

\* recover_stale_runs: every queued or running row becomes error
recover_stale_runs(rs) ==
    [r \in RunIds |->
        IF rs[r].status \in {"queued", "running"}
        THEN [rs[r] EXCEPT !.status = "error",
                           !.last_event = "recovered_after_reload",
                           !.error = "reload"]
        ELSE rs[r]]

\* recover_stale_runs, the notices (24-32): one add_message per recovered row,
\* to the row's chat_id in the MemoryStore of this process, errors swallowed
recover_notices(rs, ms, live) ==
    [r \in RunIds |->
        IF rs[r].status \in {"queued", "running"}
        THEN add_message(ms, live, rs[r].chat_id, r, "recovered_notice")[r]
        ELSE ms[r]]

\* startup: app_state builds a new MemoryStore (one default chat), lifespan
\* runs recover_stale_runs and only then yields to serve requests
lifespan ==
    /\ phase = "down"
    /\ runs' = recover_stale_runs(runs)
    /\ nchats' = nchats + 1
    /\ chats' = {nchats + 1}
    /\ messages' = recover_notices(runs, messages, {nchats + 1})
    /\ phase' = "serving"
    /\ http' = NoHttp
    /\ returned' = NoRun
    /\ UNCHANGED <<chat_state, task, worker, cas_true, started, other_vars>>

\* ---- plans and payloads (src/agent/plan_models.py) ------------------------

\* A plan is written by its shape: a step is the list of its substeps, a plan
\* the list of its top-level steps.  step_from_dict (routes.py 321-336) gives
\* every step with substeps the type subplan and every step the status
\* pending, so the skip of done/skipped steps (88-89) never applies.
RECURSIVE Forests(_)
Forests(n) ==
    IF n = 0 THEN {<<>>}
    ELSE UNION {{<<t>> \o f : t \in Forests(k - 1), f \in Forests(n - k)} : k \in 1..n}

\* the plans with at most MaxNodes steps
Plans == UNION {Forests(n) : n \in 0..MaxNodes}

\* the substep list found at a path
RECURSIVE NodeAt(_, _)
NodeAt(forest, path) ==
    IF Len(path) = 1 THEN forest[path[1]]
    ELSE NodeAt(forest[path[1]], Tail(path))

\* the fields of a step without substeps that validation and dispatch read
Leaves ==
    {[type |-> "note", mcp_id |-> Nil, method |-> Nil, path |-> Nil],
     [type |-> "subplan", mcp_id |-> Nil, method |-> Nil, path |-> Nil],
     [type |-> "shell", mcp_id |-> Nil, method |-> Nil, path |-> Nil],
     [type |-> "mcp_call", mcp_id |-> Nil, method |-> "POST", path |-> "/command"],
     [type |-> "mcp_call", mcp_id |-> "mcp", method |-> "POST", path |-> "/command"],
     [type |-> "mcp_call", mcp_id |-> "mcp", method |-> "post", path |-> "/command"],
     [type |-> "mcp_call", mcp_id |-> "mcp", method |-> "GET", path |-> "/status"]}

Subplan == [type |-> "subplan", mcp_id |-> Nil, method |-> Nil, path |-> Nil]

NoStep == [type |-> Nil, mcp_id |-> Nil, method |-> Nil, path |-> Nil]

\* texts are sequences of characters
Ok == <<"o", "k">>

\* payload["status"]: missing or None (read as "" at 37), and some texts
StatusTexts ==
    {<<>>, Ok, <<"O", "K">>, <<" ", "o", "k", " ">>, <<"e", "r", "r", "o", "r">>}

\* payload["exit_code"]: None, an int n, a float n + 0.5, or a text
ExitCodes ==
    {[t |-> "none", n |-> 0, s |-> <<>>],
     [t |-> "int", n |-> 0, s |-> <<>>],
     [t |-> "int", n |-> 1, s |-> <<>>],
     [t |-> "float", n |-> 0, s |-> <<>>],
     [t |-> "str", n |-> 0, s |-> <<"0">>],
     [t |-> "str", n |-> 0, s |-> <<"1">>],
     [t |-> "str", n |-> 0, s |-> <<"x">>]}

NoExitCode == [t |-> "none", n |-> 0, s |-> <<>>]

\* the response bodies: a JSON object with status and exit_code, or anything else
Payloads ==
    {[dict |-> TRUE, status |-> st, exit_code |-> ec] : st \in StatusTexts, ec \in ExitCodes}
    \cup {[dict |-> FALSE, status |-> <<>>, exit_code |-> NoExitCode]}

StatusCodes == {200, 500}

NoResult == [status_code |-> 0, result |-> [dict |-> FALSE, status |-> <<>>,
                                           exit_code |-> NoExitCode]]

\* str.lower, on the letters used here
lower(text) ==
    [i \in 1..Len(text) |->
        CASE text[i] = "O" -> "o" [] text[i] = "K" -> "k" [] text[i] = "M" -> "m"
          [] text[i] = "F" -> "f" [] text[i] = "S" -> "s" [] OTHER -> text[i]]

\* str.upper, on the method names used here
upper(method) == IF method = "post" THEN "POST" ELSE method

\* str.strip
RECURSIVE strip(_)
strip(text) ==
    IF text = <<>> THEN text
    ELSE IF Head(text) = " " THEN strip(Tail(text))
    ELSE IF text[Len(text)] = " " THEN strip(SubSeq(text, 1, Len(text) - 1))
    ELSE text

Digits == {"0", "1"}

DigitValue(c) == IF c = "1" THEN 1 ELSE 0

\* int(text) for a text of digits
RECURSIVE ParseDigits(_)
ParseDigits(text) ==
    IF text = <<>> THEN 0
    ELSE 10 * ParseDigits(SubSeq(text, 1, Len(text) - 1)) + DigitValue(text[Len(text)])

\* int(exit_code): raises is TRUE where Python raises ValueError or TypeError
py_int(x) ==
    CASE x.t = "int" -> [raises |-> FALSE, val |-> x.n]
      [] x.t = "float" -> [raises |-> FALSE, val |-> x.n]
      [] x.t = "str" ->
            IF x.s # <<>> /\ \A i \in 1..Len(x.s) : x.s[i] \in Digits
            THEN [raises |-> FALSE, val |-> ParseDigits(x.s)]
            ELSE [raises |-> TRUE, val |-> 0]
      [] OTHER -> [raises |-> TRUE, val |-> 0]

\* ---- the executor (src/agent/plan_executor.py) ----------------------------

RECURSIVE flatten_steps(_, _)
RECURSIVE flatten_substeps(_, _, _)

\* the loop of _flatten_steps over substeps (21-23), and over plan.steps with
\* the empty prefix (82-85): child i of path p is p.i, of the empty path i
flatten_substeps(substeps, path, i) ==
    IF i > Len(substeps) THEN <<>>
    ELSE flatten_steps(substeps[i], Append(path, i))
         \o flatten_substeps(substeps, path, i + 1)

\* mutant: a traversal that yields a step after its substeps
flatten_steps_post_order(substeps, path) ==
    (IF Len(substeps) > 0 THEN flatten_substeps(substeps, path, 1) ELSE <<>>)
    \o <<path>>

\* _flatten_steps (13-23): the step's own path first, then its substeps in
\* order, each with all of its descendants
flatten_steps(substeps, path) ==
    <<path>>
    \o (IF Len(substeps) > 0 THEN flatten_substeps(substeps, path, 1) ELSE <<>>)

\* _is_command_call (26-27)
is_command_call(method, path) == upper(method) = "POST" /\ path = "/command"

\* mutant: a success test that compares the status text as received
command_failed_verbatim(result) ==
    IF ~result.dict THEN TRUE
    ELSE LET ec == IF result.exit_code.t = "none" \/ py_int(result.exit_code).raises
                   THEN 0 ELSE py_int(result.exit_code).val
         IN ~(result.status = Ok /\ ec = 0)

\* _command_failed (30-61), the flag it returns
command_failed(result) ==
    IF ~result.dict THEN TRUE
    ELSE LET status == strip(lower(result.status))
             ec == IF result.exit_code.t = "none" \/ py_int(result.exit_code).raises
                   THEN 0 ELSE py_int(result.exit_code).val
         IN ~(status = Ok /\ ec = 0)

\* validate_step (plan_background_runner.py 190-196): the error text, or Nil
validate_step(st) ==
    IF st.type \notin {"note", "mcp_call", "subplan"} THEN "tipo_invalido"
    ELSE IF st.type = "mcp_call" /\ (st.mcp_id = Nil \/ st.method = Nil \/ st.path = Nil)
    THEN "mcp_call_incompleto"
    ELSE Nil

\* the status a returned call gives its step (119-128)
step_status(st, status_code, result) ==
    IF is_command_call(st.method, st.path)
    THEN IF command_failed(result) THEN "error" ELSE "done"
    ELSE IF 200 <= status_code /\ status_code < 300 THEN "done" ELSE "error"

\* mutant: an executor return that leaves the plan running when a step failed
stop_plan_unmarked(pl) == pl

\* the plan at a return after a failure (97-99, 142-144, 151-155)
stop_plan(pl) == [pl EXCEPT !.status = "error"]

\* execute_plan_run up to the loops (78-81)
exec_start ==
    /\ xpc = "ready"
    /\ plan_run' = [plan_run EXCEPT !.status = "running"]
    /\ gen' = flatten_substeps(plan_run.steps, <<>>, 1)
    /\ xpc' = "running"
    /\ UNCHANGED <<steps, step, result_raw, visited, run_row, life_vars, invoke_vars, send_vars, emit_vars>>

\* one turn of the loops (85-118): the next step is yielded and validated; a
\* note is done at once, a subplan stays running while its substeps follow,
\* an mcp_call calls invoke_mcp_call.  leaf: the fields of a step without
\* substeps, read now for the first time.
exec_step(leaf) ==
    /\ xpc = "running"
    /\ gen # <<>>
    /\ LET subpath == Head(gen)
           st == IF Len(NodeAt(plan_run.steps, subpath)) > 0 THEN Subplan ELSE leaf
           err == validate_step(st)
       IN /\ visited' = Append(visited, subpath)
          /\ gen' = Tail(gen)
          /\ IF err # Nil
             THEN /\ steps' = [steps EXCEPT ![subpath] = [status |-> "error", error |-> err]]
                  /\ plan_run' = [stop_plan(plan_run) EXCEPT !.current_step_path = subpath]
                  /\ xpc' = "returned"
             ELSE /\ steps' = [steps EXCEPT ![subpath].status =
                                   IF st.type = "note" THEN "done" ELSE "running"]
                  /\ plan_run' = [plan_run EXCEPT !.current_step_path = subpath]
                  /\ xpc' = IF st.type = "mcp_call" THEN "invoking" ELSE "running"
          /\ step' = IF st.type = "mcp_call" THEN st ELSE NoStep
    /\ result_raw' = NoResult
    /\ UNCHANGED <<run_row, life_vars, invoke_vars, send_vars, emit_vars>>

\* invoke_mcp_call returns (119-144)
exec_invoke_returns(status_code, result) ==
    /\ xpc = "invoking"
    /\ LET subpath == plan_run.current_step_path
           status == step_status(step, status_code, result)
       IN /\ result_raw' = [status_code |-> status_code, result |-> result]
          /\ IF status = "error"
             THEN /\ steps' = [steps EXCEPT ![subpath] =
                                  [status |-> "error", error |-> "result_summary"]]
                  /\ plan_run' = stop_plan(plan_run)
                  /\ xpc' = "returned"
             ELSE /\ steps' = [steps EXCEPT ![subpath].status = "done"]
                  /\ plan_run' = plan_run
                  /\ xpc' = "running"
    /\ UNCHANGED <<gen, step, visited, run_row, life_vars, invoke_vars, send_vars, emit_vars>>

\* invoke_mcp_call raises (emit's run_store.update, or the reasoner's LLM
\* call): except Exception (151-155) ends the plan, the step is not touched
exec_invoke_raises ==
    /\ xpc = "invoking"
    /\ plan_run' = stop_plan(plan_run)
    /\ xpc' = "returned"
    /\ UNCHANGED <<steps, gen, step, result_raw, visited, run_row, life_vars, invoke_vars, send_vars, emit_vars>>

\* the loops end (146-149)
exec_done ==
    /\ xpc = "running"
    /\ gen = <<>>
    /\ plan_run' = [plan_run EXCEPT !.status = "done"]
    /\ xpc' = "returned"
    /\ UNCHANGED <<steps, gen, step, result_raw, visited, run_row, life_vars, invoke_vars, send_vars, emit_vars>>

\* run_plan_in_background after execute_plan_run returned (475-482)
final_status(pl) == IF pl.status = "error" THEN "error" ELSE "done"

runner_store_plan ==
    /\ xpc = "returned"
    /\ run_row' = [status |-> final_status(plan_run), last_event |-> "run_done"]
    /\ xpc' = "stored"
    /\ UNCHANGED <<plan_run, steps, gen, step, result_raw, visited, life_vars, invoke_vars, send_vars, emit_vars>>

\* ---- the retry loop (src/agent/plan_background_runner.py) ----------------

\* the cmd texts: two harmless ones, two that the deny-list matches
Cmds ==
    {<<"l", "s">>, <<"d", "i", "r">>, <<"m", "k", "f", "s">>,
     <<"x", " ", "M", "K", "F", "S">>}

\* two entries of the deny list of _looks_dangerous (25-39)
Deny == {<<"m", "k", "f", "s">>, <<"r", "m", " ", "-", "r", "f", " ", "/">>}

\* x in c
contains(c, x) ==
    \E i \in 1..(Len(c) - Len(x) + 1) : SubSeq(c, i, i + Len(x) - 1) = x

\* mutant: a deny-list test on the text as written
looks_dangerous_case_sensitive(cmd) == \E x \in Deny : contains(cmd, x)

\* _looks_dangerous (24-41)
looks_dangerous(cmd) == \E x \in Deny : contains(lower(cmd), x)

\* the runner's _command_failed (57-84): lower-cases, does not strip
runner_command_failed(result) ==
    IF ~result.dict THEN TRUE
    ELSE LET status == lower(result.status)
             ec == IF result.exit_code.t = "none" \/ py_int(result.exit_code).raises
                   THEN 0 ELSE py_int(result.exit_code).val
         IN ~(status = Ok /\ ec = 0)

\* the calls: a POST /command and another endpoint
Calls == {[method |-> "POST", path |-> "/command"], [method |-> "GET", path |-> "/status"]}

\* what the LLM answers the reasoner: no tool call, give_up, or retry with a cmd
Answers ==
    {[action |-> "no_tool_call", cmd |-> <<>>], [action |-> "give_up", cmd |-> <<>>]}
    \cup {[action |-> "retry", cmd |-> c] : c \in Cmds \cup {<<>>, <<" ", "l", "s">>}}

NoCmd == <<"-">>

\* reason_about_command_failure (agent_reasoner.py 78-110): the cmd of the new
\* step, or NoCmd for None
reason_about_command_failure(answer, prev_cmd) ==
    IF answer.action # "retry" THEN NoCmd
    ELSE IF strip(answer.cmd) = <<>> THEN NoCmd
    ELSE IF strip(answer.cmd) = strip(prev_cmd) THEN NoCmd
    ELSE strip(answer.cmd)

\* mutant: the reasoner is asked one attempt earlier
out_of_attempts_early(n) == n + 1 >= MAX_ATTEMPTS_PER_COMMAND_STEP

\* the test at 337
out_of_attempts(n) == n >= MAX_ATTEMPTS_PER_COMMAND_STEP

Emitted(kind) == [kind |-> kind, step_path |-> call.path]

Sent(how) == Append(dispatched, [cmd |-> current_body, how |-> how])

NoRet == [status_code |-> 0, result |-> [dict |-> FALSE, status |-> <<>>,
                                        exit_code |-> NoExitCode]]

ErrorPayload == [dict |-> TRUE, status |-> <<>>, exit_code |-> NoExitCode]

\* the call up to the loop (265-284)
invoke_start ==
    /\ ipc = "called"
    /\ last_emit' = Emitted("step_start")
    /\ attempt' = 1
    /\ current_body' = body
    /\ ipc' = "loop"
    /\ UNCHANGED <<call, body, dispatched, consulted, ret, life_vars, exec_vars, send_vars, emit_vars>>

\* invoke_step answers without sending anything: tool missing or inactive
\* (404), not enabled for the project (403), endpoint not allowed (500); the
\* loop returns at 290-307
invoke_not_sent(sc) ==
    /\ ipc = "loop"
    /\ last_emit' = Emitted("step_err")
    /\ ret' = [status_code |-> sc, result |-> ErrorPayload]
    /\ ipc' = "returned"
    /\ UNCHANGED <<call, body, attempt, current_body, dispatched, consulted,
                   life_vars, exec_vars, send_vars, emit_vars>>

\* mutant: a non-2xx answer that is retried like a failed command
invoke_http_error_retried(sc, res) ==
    /\ ipc = "loop"
    /\ ~(200 <= sc /\ sc < 300)
    /\ dispatched' = Sent("http_error")
    /\ attempt' = attempt + 1
    /\ last_emit' = Emitted("step_retry")
    /\ UNCHANGED <<call, body, current_body, consulted, ret, ipc, life_vars, exec_vars,
                   send_vars, emit_vars>>

\* the request is sent and the answer is not 2xx (290-307)
invoke_http_error(sc, res) ==
    /\ ipc = "loop"
    /\ ~(200 <= sc /\ sc < 300)
    /\ dispatched' = Sent("http_error")
    /\ last_emit' = Emitted("step_err")
    /\ ret' = [status_code |-> sc, result |-> res]
    /\ ipc' = "returned"
    /\ UNCHANGED <<call, body, attempt, current_body, consulted, life_vars, exec_vars, send_vars, emit_vars>>

\* 2xx and, for a command call, a payload that did not fail (314-334, 441-457)
invoke_ok(sc, res) ==
    /\ ipc = "loop"
    /\ 200 <= sc /\ sc < 300
    /\ is_command_call(call.method, call.path) => ~runner_command_failed(res)
    /\ dispatched' = Sent("ok")
    /\ last_emit' = Emitted("step_ok")
    /\ ret' = [status_code |-> sc, result |-> res]
    /\ ipc' = "returned"
    /\ UNCHANGED <<call, body, attempt, current_body, consulted, life_vars, exec_vars, send_vars, emit_vars>>

\* the command failed and attempts are left (421-439): same body again
invoke_retry(sc, res) ==
    /\ ipc = "loop"
    /\ 200 <= sc /\ sc < 300
    /\ is_command_call(call.method, call.path) /\ runner_command_failed(res)
    /\ ~out_of_attempts(attempt)
    /\ dispatched' = Sent("failed")
    /\ attempt' = attempt + 1
    /\ last_emit' = Emitted("step_retry")
    /\ UNCHANGED <<call, body, current_body, consulted, ret, ipc, life_vars, exec_vars, send_vars, emit_vars>>

\* the command failed and no attempt is left (337-419): the reasoner is
\* asked; without a proposal, or with a dangerous one, the call returns the
\* failure, else the loop goes on with the proposed body
invoke_reason(sc, res, answer) ==
    /\ ipc = "loop"
    /\ 200 <= sc /\ sc < 300
    /\ is_command_call(call.method, call.path) /\ runner_command_failed(res)
    /\ out_of_attempts(attempt)
    /\ consulted < MaxConsults
    /\ dispatched' = Sent("failed")
    /\ consulted' = consulted + 1
    /\ LET new_cmd == reason_about_command_failure(answer, current_body) IN
       IF new_cmd = NoCmd \/ looks_dangerous(new_cmd)
       THEN /\ last_emit' = Emitted("step_err")
            /\ ret' = [status_code |-> sc, result |-> res]
            /\ ipc' = "returned"
            /\ UNCHANGED <<attempt, current_body>>
       ELSE /\ attempt' = attempt + 1
            /\ current_body' = new_cmd
            /\ last_emit' = Emitted("step_retry")
            /\ UNCHANGED <<ret, ipc>>
    /\ UNCHANGED <<call, body, life_vars, exec_vars, send_vars, emit_vars>>

\* the same, and the reasoner's LLM call raises: the exception leaves
\* invoke_mcp_with_emit after the step_retry emit at 342
invoke_reason_raises(sc, res) ==
    /\ ipc = "loop"
    /\ 200 <= sc /\ sc < 300
    /\ is_command_call(call.method, call.path) /\ runner_command_failed(res)
    /\ out_of_attempts(attempt)
    /\ consulted < MaxConsults
    /\ dispatched' = Sent("failed")
    /\ consulted' = consulted + 1
    /\ last_emit' = Emitted("step_retry")
    /\ ipc' = "raised"
    /\ UNCHANGED <<call, body, attempt, current_body, ret, life_vars, exec_vars, send_vars, emit_vars>>

\* the body of the step in the plan the runner stores when the executor
\* returns (asdict(final_plan), 475-482): step.body, which is handed to
\* invoke_mcp_with_emit as the argument `body` (plan_executor.py 116-118) and
\* which no statement of the loop or of the executor assigns
stored_step_body == body

\* ---- api_send, statement by statement (src/web/routes.py) ----------------

\* a key that the dict does not have, and the value None
Missing == <<"missing">>
PyNone == <<"null">>

\* the argument `body` of the tool call: absent, a string, or a dict with the
\* keys cmd, command and text (other keys are carried along untouched)
NoBody == [kind |-> "none", s |-> <<>>, cmd |-> Missing, command |-> Missing,
           text |-> Missing]

Str(s) == [kind |-> "str", s |-> s, cmd |-> Missing, command |-> Missing,
           text |-> Missing]

Dict(cmd, command, text) ==
    [kind |-> "dict", s |-> <<>>, cmd |-> cmd, command |-> command, text |-> text]

Ls == <<"l", "s">>

\* command texts: plain, padded with blanks, empty, blank
CmdStrings == {Ls, <<" ", "l", "s", " ">>, <<>>, <<" ">>}

JsonKeys == {<<"c", "m", "d">>, <<"c", "o", "m", "m", "a", "n", "d">>,
             <<"t", "e", "x", "t">>, <<"x">>}

\* the JSON text {"k":"v"}
JsonObject(k, v) == <<"{", "\"">> \o k \o <<"\"", ":", "\"">> \o v \o <<"\"", "}">>

\* strings that start with { and end with }: the empty object, objects with
\* one key, and a text that is not JSON
JsonStrings ==
    {<<"{", "}">>, <<"{", "l", "s", "}">>}
        \cup {JsonObject(k, Ls) : k \in JsonKeys}

LlmBodies ==
    {NoBody}
        \cup {Str(s) : s \in CmdStrings \cup JsonStrings}
        \cup {Dict(v, Missing, Missing) : v \in CmdStrings \cup {PyNone}}
        \cup {Dict(Missing, v, Missing) : v \in CmdStrings}
        \cup {Dict(Missing, Missing, v) : v \in CmdStrings}
        \cup {Dict(Missing, Missing, Missing), Dict(<<>>, Ls, Missing),
              Dict(Missing, Ls, <<"p", "s">>)}

\* json.loads on the strings above: a dict for the objects, an exception for
\* the rest
json_loads(s) ==
    IF s = <<"{", "}">> THEN [ok |-> TRUE, body |-> Dict(Missing, Missing, Missing)]
    ELSE IF \E k \in JsonKeys, v \in CmdStrings : s = JsonObject(k, v)
    THEN LET kv == CHOOSE kv \in JsonKeys \X CmdStrings : s = JsonObject(kv[1], kv[2])
             at(k) == IF kv[1] = k THEN kv[2] ELSE Missing
         IN [ok |-> TRUE,
             body |-> Dict(at(<<"c", "m", "d">>),
                           at(<<"c", "o", "m", "m", "a", "n", "d">>),
                           at(<<"t", "e", "x", "t">>))]
    ELSE [ok |-> FALSE, body |-> NoBody]

\* lines 1094-1106: a non-blank string becomes {"cmd": s.strip()}, or the dict
\* it parses to when it is written in braces
parse_body(b) ==
    IF b.kind = "str" /\ strip(b.s) # <<>>
    THEN LET s == strip(b.s) IN
         IF s[1] = "{" /\ s[Len(s)] = "}" /\ json_loads(s).ok THEN json_loads(s).body
         ELSE Dict(s, Missing, Missing)
    ELSE b

\* lines 1108-1112: command, then text, is moved to cmd if cmd is not a key
rename_keys(b) ==
    IF b.kind # "dict" THEN b
    ELSE LET b1 == IF b.cmd = Missing /\ b.command # Missing
                   THEN Dict(b.command, Missing, b.text) ELSE b
         IN IF b1.cmd = Missing /\ b1.text # Missing
            THEN Dict(b1.text, b1.command, Missing) ELSE b1

\* mutant: a normalisation that trims the command of a dict as well
normalize_trimmed(b) ==
    LET n == rename_keys(parse_body(b)) IN
    IF n.kind = "dict" /\ n.cmd \notin {Missing, PyNone}
    THEN Dict(strip(n.cmd), n.command, n.text) ELSE n

\* lines 1093-1112
normalize(b) == rename_keys(parse_body(b))

py_str(v) == IF v = PyNone THEN <<"N", "o", "n", "e">> ELSE v

\* line 1121: not a dict, no key cmd, or str(cmd) blank
cmd_missing(b) ==
    b.kind # "dict" \/ b.cmd = Missing \/ strip(py_str(b.cmd)) = <<>>

NoDraft == [status |-> "absent", last_event |-> Nil, plan |-> [has |-> FALSE, body |-> NoBody]]

NoCall == [valid |-> FALSE, route |-> Nil, body |-> NoBody]

Reply(kind) == chat_log' = Append(chat_log, kind)

\* lines 629-647: state = store.get_state(chat_id)
send_get_state ==
    /\ spc = "entry"
    /\ seen_state' = [read |-> TRUE, pending_run_id |-> chat_pending]
    /\ spc' = "state_read"
    /\ UNCHANGED <<user_text, chat_log, draft, chat_pending, branch, raw_call, tool_body,
                   poll_pc, poll_seen, life_vars, exec_vars, invoke_vars, emit_vars>>

\* line 652: store.add_message(chat_id, "user", text)
send_add_user_message ==
    /\ spc = "state_read"
    /\ Reply("user")
    /\ spc' = "user_logged"
    /\ UNCHANGED <<user_text, seen_state, draft, chat_pending, branch, raw_call, tool_body,
                   poll_pc, poll_seen, life_vars, exec_vars, invoke_vars, emit_vars>>

\* lines 654-673: the direct command; without a tool the reply ends the request
send_fast_path(has_tool) ==
    /\ spc = "user_logged"
    /\ user_text = "command"
    /\ IF has_tool
       THEN /\ tool_body' = Dict(Ls, Missing, Missing)
            /\ branch' = "fast"
            /\ spc' = "accepted"
            /\ UNCHANGED chat_log
       ELSE /\ Reply("assistant")
            /\ spc' = "done"
            /\ UNCHANGED <<tool_body, branch>>
    /\ UNCHANGED <<user_text, seen_state, draft, chat_pending, raw_call,
                   poll_pc, poll_seen, life_vars, exec_vars, invoke_vars, emit_vars>>

\* lines 697-877: a confirm or cancel word, or a pending run: every branch ends
\* the request with a reply (the branches themselves are `send`)
send_confirm_section ==
    /\ spc = "user_logged"
    /\ user_text # "command"
    /\ user_text = "confirm" \/ seen_state.pending_run_id # "none"
    /\ Reply("assistant")
    /\ spc' = "done"
    /\ UNCHANGED <<user_text, seen_state, draft, chat_pending, branch, raw_call, tool_body,
                   poll_pc, poll_seen, life_vars, exec_vars, invoke_vars, emit_vars>>

\* lines 882-1028: client.chat raises (500), answers in text, or calls the tool
send_llm(answer) ==
    /\ spc = "user_logged"
    /\ user_text = "text"
    /\ seen_state.pending_run_id = "none"
    /\ CASE answer = "raises" -> spc' = "failed" /\ UNCHANGED chat_log
         [] answer = "reply" -> spc' = "done" /\ Reply("assistant")
         [] OTHER -> spc' = "tool_call" /\ UNCHANGED chat_log
    /\ UNCHANGED <<user_text, seen_state, draft, chat_pending, branch, raw_call, tool_body,
                   poll_pc, poll_seen, life_vars, exec_vars, invoke_vars, emit_vars>>

\* lines 1041-1126: the arguments are checked (valid: a dict with mcp_id,
\* method and path of an active tool of the project), the body of a
\* POST /command is normalised, and a body without cmd is rejected
send_tool_call(valid, route, b) ==
    /\ spc = "tool_call"
    /\ raw_call' = [valid |-> valid, route |-> route, body |-> b]
    /\ LET nb == IF route = "command" THEN normalize(b) ELSE b IN
       IF ~valid \/ (route = "command" /\ cmd_missing(nb))
       THEN /\ Reply("assistant")
            /\ spc' = "done"
            /\ UNCHANGED <<tool_body, branch>>
       ELSE /\ tool_body' = nb
            /\ branch' = "tool"
            /\ spc' = "accepted"
            /\ UNCHANGED chat_log
    /\ UNCHANGED <<user_text, seen_state, draft, chat_pending,
                   poll_pc, poll_seen, life_vars, exec_vars, invoke_vars, emit_vars>>

\* lines 675 and 1142: plan_run_store.create commits a draft row without plan
send_create ==
    /\ spc = "accepted"
    /\ draft' = [status |-> "draft", last_event |-> Nil,
                 plan |-> [has |-> FALSE, body |-> NoBody]]
    /\ spc' = "created"
    /\ UNCHANGED <<user_text, seen_state, chat_log, chat_pending, branch, raw_call,
                   tool_body, poll_pc, poll_seen, life_vars, exec_vars, invoke_vars, emit_vars>>

\* lines 676 and 1143-1148: update(status="draft", plan=asdict(plan), ...)
send_update ==
    /\ spc = "created"
    /\ draft' = [status |-> "draft", last_event |-> "plan_draft",
                 plan |-> [has |-> TRUE, body |-> tool_body]]
    /\ spc' = "drafted"
    /\ UNCHANGED <<user_text, seen_state, chat_log, chat_pending, branch, raw_call,
                   tool_body, poll_pc, poll_seen, life_vars, exec_vars, invoke_vars, emit_vars>>

\* lines 678 and 1150-1153: set_state(pending_run_id=run.run_id); if the repo
\* raises, the fast path ends with 500 and the tool path logs it and goes on
send_set_state(raises) ==
    /\ spc = "drafted"
    /\ chat_pending' = IF raises THEN chat_pending ELSE "new"
    /\ spc' = IF raises /\ branch = "fast" THEN "failed" ELSE "pending_done"
    /\ UNCHANGED <<user_text, seen_state, chat_log, draft, branch, raw_call,
                   tool_body, poll_pc, poll_seen, life_vars, exec_vars, invoke_vars, emit_vars>>

\* lines 688 and 1162: the "Plan propuesto" reply
send_reply ==
    /\ spc = "pending_done"
    /\ Reply("plan_proposed")
    /\ spc' = "done"
    /\ UNCHANGED <<user_text, seen_state, draft, chat_pending, branch, raw_call,
                   tool_body, poll_pc, poll_seen, life_vars, exec_vars, invoke_vars, emit_vars>>

\* the process ends while the request is handled: what was committed to
\* SQLite stays, MemoryStore and the poll are gone
send_killed ==
    /\ spc \notin {"done", "failed", "killed"}
    /\ spc' = "killed"
    /\ chat_log' = <<>>
    /\ poll_pc' = "done"
    /\ UNCHANGED <<user_text, seen_state, draft, chat_pending, branch, raw_call,
                   tool_body, poll_seen, life_vars, exec_vars, invoke_vars, emit_vars>>

\* api_get_messages, lines 573-580: state = store.get_state(chat_id)
poll_get_state ==
    /\ spc # "killed"
    /\ poll_pc = "idle"
    /\ poll_seen' = [pending_run_id |-> chat_pending, proposed |-> FALSE]
    /\ poll_pc' = "state_read"
    /\ UNCHANGED <<user_text, spc, seen_state, chat_log, draft, chat_pending, branch,
                   raw_call, tool_body, life_vars, exec_vars, invoke_vars, emit_vars>>

\* api_get_messages, lines 581-598: msgs is read from c.messages and returned
\* with the state read before
poll_get_messages ==
    /\ spc # "killed"
    /\ poll_pc = "state_read"
    /\ poll_seen' = [poll_seen EXCEPT !.proposed =
                        chat_log # <<>> /\ chat_log[Len(chat_log)] = "plan_proposed"]
    /\ poll_pc' = "done"
    /\ UNCHANGED <<user_text, spc, seen_state, chat_log, draft, chat_pending, branch,
                   raw_call, tool_body, life_vars, exec_vars, invoke_vars, emit_vars>>

\* ---- specification ------------------------------------------------------

life_init ==
    /\ phase = "serving"
    /\ chats = {1}
    /\ nchats = 1
    /\ runs = [r \in RunIds |-> AbsentRun]
    /\ chat_state = [c \in ChatIds |-> EmptyState]
    /\ task = [r \in RunIds |-> "none"]
    /\ worker = [r \in RunIds |-> "idle"]
    /\ http = NoHttp
    /\ returned = NoRun
    /\ cas_true = [r \in RunIds |-> 0]
    /\ started = [r \in RunIds |-> 0]
    /\ messages = [r \in RunIds |-> <<>>]

\* no executor call is followed
exec_off ==
    /\ plan_run = [steps |-> <<>>, status |-> "pending", current_step_path |-> <<>>]
    /\ steps = <<>>
    /\ gen = <<>>
    /\ step = NoStep
    /\ result_raw = NoResult
    /\ xpc = "off"
    /\ visited = <<>>
    /\ run_row = [status |-> "running", last_event |-> "run_start"]

\* no call of invoke_mcp_with_emit is followed
invoke_off ==
    /\ call = [method |-> Nil, path |-> Nil]
    /\ body = <<>>
    /\ attempt = 0
    /\ current_body = <<>>
    /\ dispatched = <<>>
    /\ consulted = 0
    /\ last_emit = [kind |-> Nil, step_path |-> Nil]
    /\ ret = NoRet
    /\ ipc = "off"

send_off ==
    /\ user_text = Nil
    /\ spc = "off"
    /\ seen_state = [read |-> FALSE, pending_run_id |-> "none"]
    /\ chat_log = <<>>
    /\ draft = NoDraft
    /\ chat_pending = "none"
    /\ branch = Nil
    /\ raw_call = NoCall
    /\ tool_body = NoBody
    /\ poll_pc = "off"
    /\ poll_seen = [pending_run_id |-> "none", proposed |-> FALSE]

\* nothing is scheduled on the loop
emit_off == callbacks = <<>>

Init == life_init /\ exec_off /\ invoke_off /\ send_off /\ emit_off

Next ==
    \/ \E c \in ChatIds, i \in SendInputs : api_send(c, i[1], i[2], i[3], i[4], i[5])
    \/ \E c \in ChatIds : api_send_unknown_chat(c, "text")
    \/ \E r \in RunIds, raises \in BOOLEAN : api_start_run(r, raises)
    \/ \E r \in RunIds : runner_start(r)
    \/ \E r \in RunIds : worker_step_start(r)
    \/ \E r \in RunIds, ok \in BOOLEAN : worker_step_end(r, ok)
    \/ \E r \in RunIds : runner_done(r)
    \/ \E r \in RunIds : runner_timeout(r)
    \/ \E r \in RunIds : runner_cancelled(r)
    \/ \E r \in RunIds : runner_error(r)
    \/ shutdown
    \/ kill
    \/ lifespan

Spec == Init /\ [][Next]_vars

\* execute_plan_run on any plan of Plans, called by a runner that has written
\* status running and last_event run_start
InitExec ==
    /\ life_init
    /\ invoke_off
    /\ send_off
    /\ emit_off
    /\ \E f \in Plans :
          /\ plan_run = [steps |-> f, status |-> "pending", current_step_path |-> <<>>]
          /\ steps = [q \in {flatten_substeps(f, <<>>, 1)[i] :
                                i \in 1..Len(flatten_substeps(f, <<>>, 1))} |->
                         [status |-> "pending", error |-> Nil]]
    /\ gen = <<>>
    /\ step = NoStep
    /\ result_raw = NoResult
    /\ xpc = "ready"
    /\ visited = <<>>
    /\ run_row = [status |-> "running", last_event |-> "run_start"]

NextExec ==
    \/ exec_start
    \/ \E leaf \in Leaves : exec_step(leaf)
    \/ \E sc \in StatusCodes, res \in Payloads : exec_invoke_returns(sc, res)
    \/ exec_invoke_raises
    \/ exec_done
    \/ runner_store_plan

SpecExec == InitExec /\ [][NextExec]_vars

\* invoke_mcp_with_emit called for an mcp_call step: the fast path copies the
\* user's command into body.cmd (routes.py 654-673), the LLM path the model's
InitInvoke ==
    /\ life_init
    /\ exec_off
    /\ send_off
    /\ emit_off
    /\ call \in Calls
    /\ body \in Cmds
    /\ attempt = 0
    /\ current_body = <<>>
    /\ dispatched = <<>>
    /\ consulted = 0
    /\ last_emit = [kind |-> Nil, step_path |-> Nil]
    /\ ret = NoRet
    /\ ipc = "called"

NextInvoke ==
    \/ invoke_start
    \/ \E sc \in {403, 404, 500} : invoke_not_sent(sc)
    \/ \E sc \in StatusCodes, res \in Payloads : invoke_http_error(sc, res)
    \/ \E sc \in StatusCodes, res \in Payloads : invoke_ok(sc, res)
    \/ \E sc \in StatusCodes, res \in Payloads : invoke_retry(sc, res)
    \/ \E sc \in StatusCodes, res \in Payloads, answer \in Answers :
          invoke_reason(sc, res, answer)
    \/ \E sc \in StatusCodes, res \in Payloads : invoke_reason_raises(sc, res)

SpecInvoke == InitInvoke /\ [][NextInvoke]_vars

TypeOK ==
    /\ phase \in {"serving", "stopping", "down"}
    /\ chats \subseteq ChatIds
    /\ nchats \in 0..MaxChats
    /\ \A r \in RunIds :
         /\ runs[r].status \in {"absent", "draft", "queued", "running", "done", "error"}
         /\ runs[r].chat_id \in 0..MaxChats
         /\ task[r] \in {"none", "created", "waiting", "finished", "cancelled"}
         /\ worker[r] \in {"idle", "ready", "invoking", "returned_done", "returned_error"}
         /\ cas_true[r] \in 0..MaxCount
         /\ started[r] \in 0..MaxCount
         /\ \A i \in 1..Len(messages[r]) : messages[r][i] \in
                {"step_start", "step_ok", "step_err", "run_done", "run_timeout",
                 "run_cancelled", "run_error", "recovered_notice"}
    /\ returned \in RunIds \cup {NoRun}
    /\ \A c \in ChatIds :
         /\ chat_state[c].pending_run_id \in RunIds \cup {NoRun}
         /\ chat_state[c].active_run_id \in RunIds \cup {NoRun}
         /\ chat_state[c].last_run_id \in RunIds \cup {NoRun}

\* the happy path: requests whose store calls do not raise, a tool that
\* answers ok, no timeout, no exception, no restart.  The loop runs every task
\* it was given, the pool runs the thread, and the tool answers.
HappyInputs == {i \in SendInputs : ~i[4]}

NextHappy ==
    \/ \E c \in ChatIds, i \in HappyInputs : api_send(c, i[1], i[2], i[3], i[4], i[5])
    \/ \E r \in RunIds : api_start_run(r, FALSE)
    \/ \E r \in RunIds : runner_start(r)
    \/ \E r \in RunIds : worker_step_start(r)
    \/ \E r \in RunIds : worker_step_end(r, TRUE)
    \/ \E r \in RunIds : runner_done(r)

SpecHappy ==
    /\ Init
    /\ [][NextHappy]_vars
    /\ \A r \in RunIds :
          /\ WF_vars(runner_start(r))
          /\ WF_vars(worker_step_start(r))
          /\ WF_vars(worker_step_end(r, TRUE))
          /\ WF_vars(runner_done(r))

\* a run up to the end of its step, the emits of the worker thread seen
\* statement by statement next to the loop that posts their envelopes
NextEmit ==
    \/ \E c \in ChatIds, i \in HappyInputs : api_send(c, i[1], i[2], i[3], i[4], i[5])
    \/ \E r \in RunIds : runner_start(r)
    \/ \E r \in RunIds : thread_step_start(r)
    \/ \E r \in RunIds, ok \in BOOLEAN : thread_step_end(r, ok)
    \/ loop_callback

SpecEmit == Init /\ [][NextEmit]_vars

\* the confirmation protocol of one process that keeps serving: every message
\* class, every outcome of a run, no shutdown and no restart
NextConfirm ==
    \/ \E c \in ChatIds, i \in SendInputs :
          api_send_watched(c, i[1], i[2], i[3], i[4], i[5])
    \/ \E r \in RunIds : runner_start(r)
    \/ \E r \in RunIds : worker_step_start(r)
    \/ \E r \in RunIds, ok \in BOOLEAN : worker_step_end(r, ok)
    \/ \E r \in RunIds : runner_done(r)
    \/ \E r \in RunIds : runner_timeout(r)
    \/ \E r \in RunIds : runner_error(r)

SpecConfirm == Init /\ [][NextConfirm]_vars

\* the serving process with a project that may be deleted at any time, and
\* with a loop, a thread pool and tool servers that keep going: every task
\* that was created runs, every tool call returns, and a runner whose plan
\* returned goes on to its epilogue
NextLive ==
    \/ \E c \in ChatIds, i \in SendInputs :
          api_send_watched(c, i[1], i[2], i[3], i[4], i[5])
    \/ \E c \in ChatIds, i \in SendInputs :
          api_send_during_delete(c, i[1], i[2], i[3], i[4], i[5])
    \/ \E c \in ChatIds : api_delete_project(c)
    \/ \E r \in RunIds : runner_start(r)
    \/ \E r \in RunIds : worker_step_start(r)
    \/ \E r \in RunIds, ok \in BOOLEAN : worker_step_end(r, ok)
    \/ \E r \in RunIds : runner_done(r)
    \/ \E r \in RunIds : runner_timeout(r)
    \/ \E r \in RunIds : runner_error(r)

SpecLive ==
    /\ Init
    /\ [][NextLive]_vars
    /\ \A r \in RunIds :
          /\ WF_vars(runner_start(r))
          /\ WF_vars(worker_step_start(r))
          /\ WF_vars(\E ok \in BOOLEAN : worker_step_end(r, ok))
          /\ WF_vars(runner_done(r) \/ runner_error(r))
          /\ WF_vars(runner_timeout(r))

\* one request of api_send for an existing chat, with no pending run or with
\* an earlier one, and one poll of the chat beside it
InitSend ==
    /\ life_init
    /\ exec_off
    /\ invoke_off
    /\ emit_off
    /\ user_text \in {"command", "confirm", "text"}
    /\ spc = "entry"
    /\ seen_state = [read |-> FALSE, pending_run_id |-> "none"]
    /\ chat_log = <<>>
    /\ draft = NoDraft
    /\ chat_pending \in {"none", "old"}
    /\ branch = Nil
    /\ raw_call = NoCall
    /\ tool_body = NoBody
    /\ poll_pc = "idle"
    /\ poll_seen = [pending_run_id |-> "none", proposed |-> FALSE]

NextSend ==
    \/ send_get_state
    \/ send_add_user_message
    \/ \E has_tool \in BOOLEAN : send_fast_path(has_tool)
    \/ send_confirm_section
    \/ \E answer \in {"raises", "reply", "tool_call"} : send_llm(answer)
    \/ \E valid \in BOOLEAN, route \in {"command", "other"}, b \in LlmBodies :
          send_tool_call(valid, route, b)
    \/ send_create
    \/ send_update
    \/ \E raises \in BOOLEAN : send_set_state(raises)
    \/ send_reply
    \/ send_killed
    \/ poll_get_state
    \/ poll_get_messages

SpecSend == InitSend /\ [][NextSend]_vars

\* ---- properties ---------------------------------------------------------

ChatOf(r) == runs[r].chat_id

\* C1: for every run, try_mark_queued has returned true at most once over the
\* whole behaviour; and on every reachable table and every run id, known or
\* not, it returns true exactly when the row's status is draft, then sets
\* status = queued and last_event = confirm_accepted and nothing else, and
\* otherwise returns false and leaves the table as it was.
C1_CasAtMostOnce ==
    /\ \A r \in RunIds : cas_true[r] <= 1
    /\ \A id \in 0..(MaxRuns + 1) :
         LET res == try_mark_queued(runs, id) IN
         IF id \in RunIds /\ runs[id].status = "draft"
         THEN /\ res.ok
              /\ res.runs = [runs EXCEPT ![id].status = "queued",
                                         ![id].last_event = "confirm_accepted"]
         ELSE ~res.ok /\ res.runs = runs

\* a run whose CAS was won by a confirm message and that has finished since:
\* a further try_mark_queued on it is refused
C1_Witness ==
    \E r \in RunIds :
        /\ cas_true[r] = 1
        /\ runs[r].status = "done"
        /\ ~try_mark_queued(runs, r).ok

\* C2: a confirm message that arrives when nothing is pending in its chat and
\* the chat's last confirmed run finished less than two minutes ago is a
\* duplicate of that confirmation: its reply names that run, and the run
\* table, the chat state and the tasks stay as they were.
C2_DuplicateConfirmHasNoEffect ==
    [][\A c \in ChatIds :
          (/\ http'.op = "send" /\ http'.chat_id = c
           /\ http'.text = "confirm" /\ http'.recent
           /\ chat_state[c].pending_run_id = NoRun
           /\ chat_state[c].last_run_id # NoRun)
          => (/\ runs' = runs
              /\ chat_state' = chat_state
              /\ task' = task
              /\ http'.run_id = chat_state[c].last_run_id)]_vars

\* C3: no two runs of one chat have a background runner that has started and
\* not yet returned.
C3_OneLiveRunnerPerChat ==
    \A r1, r2 \in RunIds :
        (r1 # r2 /\ task[r1] = "waiting" /\ task[r2] = "waiting")
        => ChatOf(r1) # ChatOf(r2)

\* C4: in every chat state pending_run_id and active_run_id are each null or
\* one run id, and when both are set they are different ids.
C4_PendingActiveDiffer ==
    \A c \in ChatIds :
        /\ chat_state[c].pending_run_id \in RunIds \cup {NoRun}
        /\ chat_state[c].active_run_id \in RunIds \cup {NoRun}
        /\ (chat_state[c].pending_run_id # NoRun /\ chat_state[c].active_run_id # NoRun)
           => chat_state[c].pending_run_id # chat_state[c].active_run_id

\* a run is executing and a new draft is pending in the same chat
C4_Witness ==
    \E c \in ChatIds :
        /\ chat_state[c].pending_run_id # NoRun
        /\ chat_state[c].active_run_id # NoRun
        /\ task[chat_state[c].active_run_id] = "waiting"
        /\ runs[chat_state[c].pending_run_id].status = "draft"

StatusDag ==
    {<<"absent", "draft">>, <<"draft", "queued">>, <<"queued", "running">>,
     <<"running", "done">>, <<"running", "error">>,
     <<"draft", "error">>, <<"queued", "error">>}

\* C5: every change of a run's status is an edge of the DAG
\* draft -> queued -> running -> {done, error}, draft -> error, queued -> error
\* (and the creation of the row as draft); so done and error are never left
\* and draft and queued are never entered again.
C5_StatusFollowsDag ==
    [][\A r \in RunIds :
          runs'[r].status # runs[r].status
          => <<runs[r].status, runs'[r].status>> \in StatusDag]_vars

\* one run went all the way to done and another was closed by recovery
C5_Witness ==
    \E r1, r2 \in RunIds :
        /\ runs[r1].status = "done"
        /\ runs[r2].status = "error"
        /\ runs[r2].last_event = "recovered_after_reload"

C7_FinalizeKeepsOtherRuns ==
    [][\A r \in RunIds :
          returned' = r
          => LET old == chat_state[ChatOf(r)]
                 new == chat_state'[ChatOf(r)]
             IN /\ old.pending_run_id \notin {NoRun, r}
                   => new.pending_run_id = old.pending_run_id
                /\ old.active_run_id \notin {NoRun, r}
                   => new.active_run_id = old.active_run_id]_vars

\* the runner of r has just returned and the draft proposed while it ran is
\* still pending
C7_Witness ==
    /\ returned # NoRun
    /\ LET st == chat_state[ChatOf(returned)] IN
       /\ st.pending_run_id \notin {NoRun, returned}
       /\ runs[st.pending_run_id].status = "draft"
       /\ st.last_run_id = returned

\* C8: a step whose try_mark_queued did not succeed (confirm with a pending
\* run, confirm that recovered the latest draft, POST /runs/{id}/start) leaves
\* every chat state as it was and schedules no task.
C8_FailedCasNoEffect ==
    [][http'.mode \in {"confirm_idempotent", "run_cas_failed"}
       => /\ chat_state' = chat_state
          /\ task' = task
          /\ started' = started]_vars

\* a confirm message whose CAS failed: the run is still the chat's pending draft
C8_Witness ==
    /\ http.mode = "confirm_idempotent"
    /\ http.op = "send"
    /\ chat_state[http.chat_id].pending_run_id = http.run_id
    /\ runs[http.run_id].status = "draft"
    /\ task[http.run_id] = "none"

C10_RecoveryClearsActive ==
    [][(phase = "down" /\ phase' = "serving")
       => \A r \in RunIds :
             runs[r].status \in {"queued", "running"}
             => /\ runs'[r].status = "error"
                /\ chat_state'[ChatOf(r)].active_run_id # r]_vars

\* C11: startup recovery changes exactly the runs whose status is queued or
\* running: each of them gets status error and last_event
\* recovered_after_reload and one notice message is appended to its chat;
\* every other run keeps its row and gets no message.
C11_RecoveryMarksAndNotifies ==
    [][(phase = "down" /\ phase' = "serving") =>
         \A r \in RunIds :
            IF runs[r].status \in {"queued", "running"}
            THEN /\ runs'[r].status = "error"
                 /\ runs'[r].last_event = "recovered_after_reload"
                 /\ messages'[r] = Append(messages[r], "recovered_notice")
            ELSE /\ runs'[r] = runs[r]
                 /\ messages'[r] = messages[r]]_vars

C16_ConfirmAfterCancelIsOrphan ==
    [][(/\ http.mode = "pending_cancelled"
        /\ http'.op = "send"
        /\ http'.text = "confirm"
        /\ http'.chat_id = http.chat_id) =>
         /\ http'.mode # "queued"
         /\ \A r \in RunIds : runs'[r].status = runs[r].status
         /\ task' = task]_vars

Terminal == {"run_done", "run_timeout", "run_cancelled", "run_error"}

TerminalCount(ms) == Len(SelectSeq(ms, LAMBDA k : k \in Terminal))

C22_UserMessageBeforeStateRead ==
    [][(seen_state'.read /\ ~seen_state.read) =>
          \E i \in 1..Len(chat_log) : chat_log[i] = "user"]_vars

\* the last message of the chat is the plan proposal
Proposed == chat_log # <<>> /\ chat_log[Len(chat_log)] = "plan_proposed"

\* C23: when the "Plan proposed" message is in the chat log, the draft row is
\* in the run store with its plan and pending_run_id names it, and a poll of
\* the chat that returns that message returns pending_run_id set to the draft.
C23_ProposalShowsPending ==
    /\ Proposed =>
          draft.status = "draft" /\ draft.plan.has /\ chat_pending = "new"
    /\ (poll_pc = "done" /\ poll_seen.proposed) => poll_seen.pending_run_id = "new"

\* C24: POST /runs/{run_id}/start on a draft run performs the CAS and hands
\* the run to a runner, and no run is handed off twice; on a run in any other
\* status it changes neither the run table nor the chat state and starts no
\* runner.
C24_StartIsIdempotent ==
    /\ [](\A r \in RunIds : started[r] <= 1)
    /\ [][\A r \in RunIds :
             /\ (runs[r].status = "draft" /\ api_start_run(r, FALSE)) =>
                   /\ cas_true'[r] = Inc(cas_true[r])
                   /\ task'[r] = "created"
                   /\ started'[r] = Inc(started[r])
             /\ (runs[r].status \notin {"draft", "absent"}
                    /\ \E raises \in BOOLEAN : api_start_run(r, raises)) =>
                   /\ runs' = runs
                   /\ chat_state' = chat_state
                   /\ task' = task
                   /\ started' = started]_vars

\* run r is the only run there is
Alone(r) == \A q \in RunIds \ {r} : runs[q].status = "absent"

HappyEnd(r) ==
    /\ runs[r].status = "done"
    /\ \E i \in 1..Len(messages[r]) : messages[r][i] = "step_ok"
    /\ chat_state[ChatOf(r)].last_run_status = "done"
    /\ Alone(r) => /\ chat_state[ChatOf(r)].last_run_id = r
                    /\ chat_state[ChatOf(r)].pending_run_id = NoRun
                    /\ chat_state[ChatOf(r)].active_run_id = NoRun

\* C26: on the happy path a run that a confirm word has queued goes from
\* queued to running to done and to no other status, a step_ok envelope is
\* appended, and eventually the run is done and the chat has last_run_status
\* done and, when this is the chat's only plan, pending_run_id and
\* active_run_id null.
C26_HappyPath ==
    /\ [][\A r \in RunIds :
             /\ runs[r].status = "queued" => runs'[r].status \in {"queued", "running"}
             /\ runs[r].status = "running" => runs'[r].status \in {"running", "done"}
             /\ runs[r].status = "done" => runs'[r].status = "done"]_vars
    /\ \A r \in RunIds : (runs[r].status = "queued") ~> HappyEnd(r)

C26_Witness ==
    \E r \in RunIds :
        /\ Alone(r)
        /\ HappyEnd(r)
        /\ cas_true[r] = 1
        /\ messages[r] = <<"step_start", "step_ok", "run_done">>

\* C28: the request of a step call that ends with a non-2xx code is not
\* repeated: the runner emits step_err and returns at once, without a retry
\* and without the reasoner; no request is sent for a tool that is missing,
\* inactive or not enabled (404, 403); no exception leaves the call; and with
\* the invoker's own error payload the step's status is error.
C28_HttpErrorNotRetried ==
    /\ [](\A i \in 1..Len(dispatched) :
             dispatched[i].how = "http_error" =>
                /\ i = Len(dispatched)
                /\ ipc = "returned"
                /\ last_emit.kind = "step_err")
    /\ [][(ret' # ret /\ ~(200 <= ret'.status_code /\ ret'.status_code < 300)) =>
            /\ last_emit'.kind = "step_err"
            /\ ipc' = "returned"
            /\ consulted' = consulted
            /\ attempt' = attempt
            /\ current_body' = current_body
            /\ \/ dispatched' = dispatched
               \/ dispatched' = Append(dispatched,
                                       [cmd |-> current_body, how |-> "http_error"])
            /\ ret'.status_code \in {403, 404} => dispatched' = dispatched
            /\ (ret'.result = ErrorPayload \/ ~is_command_call(call.method, call.path))
                  => step_status(call, ret'.status_code, ret'.result) = "error"]_vars
    /\ [][(ipc \in {"returned", "raised"}) => dispatched' = dispatched]_vars

C28_Witness ==
    /\ ipc = "returned"
    /\ ret = [status_code |-> 500, result |-> ErrorPayload]
    /\ dispatched = <<[cmd |-> body, how |-> "http_error"]>>
    /\ last_emit.kind = "step_err"
    /\ consulted = 0
    /\ is_command_call(call.method, call.path)

\* the four shapes in which the model may send the command S
Shapes(S) ==
    {Str(S), Dict(S, Missing, Missing), Dict(Missing, S, Missing),
     Dict(Missing, Missing, S)}

\* bodies that hold no command: no body, an empty string, a dict without the
\* three keys, a dict whose cmd is empty or null
NoCommand ==
    {NoBody, Str(<<>>), Dict(Missing, Missing, Missing), Dict(<<>>, Missing, Missing),
     Dict(PyNone, Missing, Missing)}

Rejected == Str(<<"r", "e", "j", "e", "c", "t", "e", "d">>)

Blank == {Missing, <<>>, <<" ">>}

\* what a body is expected to become: a string is trimmed and wrapped, or read
\* as the object it spells; in a dict the first key present among cmd,
\* command, text gives cmd, as written; a blank or absent cmd is rejected
Expected(b) ==
    CASE b.kind = "none" -> Rejected
      [] b.kind = "str" ->
           IF b.s \in {Ls, <<" ", "l", "s", " ">>} THEN Dict(Ls, Missing, Missing)
           ELSE IF b.s = <<"{", "l", "s", "}">> THEN Dict(b.s, Missing, Missing)
           ELSE IF b.s \in {JsonObject(k, Ls) : k \in JsonKeys \ {<<"x">>}}
           THEN Dict(Ls, Missing, Missing)
           ELSE Rejected
      [] OTHER ->
           LET first == IF b.cmd # Missing THEN b.cmd
                        ELSE IF b.command # Missing THEN b.command ELSE b.text
           IN IF first \in Blank THEN Rejected
              ELSE Dict(first,
                        IF b.cmd # Missing THEN b.command ELSE Missing,
                        IF b.cmd # Missing \/ b.command # Missing THEN b.text
                        ELSE Missing)

C27_PlanNeverNull == draft.status # "absent" => draft.plan.has

\* the step the executor is at
Current == steps[plan_run.current_step_path]

\* the payload statuses that read "ok" once lower-cased and trimmed
OkTexts == {Ok, <<"O", "K">>, <<" ", "o", "k", " ">>}

\* the exit codes that int() turns into 0, or that are absent or not a number
ZeroCodes == {ec \in ExitCodes : ~(ec.t = "int" /\ ec.n = 1) /\ ec.s # <<"1">>}

\* a call of a POST /command step has returned
CommandReturned ==
    result_raw # NoResult /\ upper(step.method) = "POST" /\ step.path = "/command"

\* C12 as stated: a POST /command step ends done exactly when the last payload
\* is a JSON object whose status equals "ok" and whose exit_code is 0 once
\* coerced, whatever the HTTP status code.
C12_DoneIffStatusEqualsOk ==
    CommandReturned =>
        (Current.status = "done" <=>
            /\ result_raw.result.dict
            /\ result_raw.result.status = Ok
            /\ result_raw.result.exit_code \in ZeroCodes)

\* C12, amended: a POST /command step ends done exactly when the last payload
\* is a JSON object whose status, lower-cased and trimmed, is "ok" and whose
\* exit_code is 0 once coerced; the HTTP status code plays no part.
C12_DoneIffStatusReadsOk ==
    CommandReturned =>
        (Current.status = "done" <=>
            /\ result_raw.result.dict
            /\ result_raw.result.status \in OkTexts
            /\ result_raw.result.exit_code \in ZeroCodes)

C12_Witness ==
    /\ CommandReturned
    /\ Current.status = "done"
    /\ result_raw.status_code = 500
    /\ result_raw.result.status = <<" ", "o", "k", " ">>
    /\ result_raw.result.exit_code.s = <<"x">>

LastVisited == visited[Len(visited)]

\* what holds of a stopped or running executor in both readings of C17
StopsAtFirstError ==
    /\ \A q \in DOMAIN steps :
          /\ steps[q].status = "error" =>
                /\ plan_run.status = "error"
                /\ q = LastVisited
                /\ steps[q].error # Nil
          /\ (\A i \in 1..Len(visited) : visited[i] # q) =>
                steps[q] = [status |-> "pending", error |-> Nil]
    /\ plan_run.status = "error" => xpc \in {"returned", "stored"}
    /\ xpc = "invoking" =>
          /\ validate_step(step) = Nil
          /\ plan_run.status = "running"
          /\ Current.status = "running"
    /\ xpc = "stored" =>
          run_row.status = IF plan_run.status = "error" THEN "error" ELSE "done"

RECURSIVE Before(_, _)
Before(p, q) ==
    IF p = <<>> THEN q # <<>>
    ELSE IF q = <<>> THEN FALSE
    ELSE IF p[1] # q[1] THEN p[1] < q[1]
    ELSE Before(Tail(p), Tail(q))

\* p is the path of a step of the plan
RECURSIVE IsStep(_, _)
IsStep(forest, p) ==
    /\ p # <<>>
    /\ p[1] \in 1..Len(forest)
    /\ Len(p) > 1 => IsStep(forest[p[1]], Tail(p))

RECURSIVE CountSteps(_)
CountSteps(forest) ==
    IF forest = <<>> THEN 0
    ELSE 1 + CountSteps(Head(forest)) + CountSteps(Tail(forest))

\* C18: the executor visits steps of the plan only, each at most once, a step
\* before its substeps and substep i with everything below it before substep
\* i + 1, with paths 1, 2, ... at the top and k.1, k.2, ... below k; a plan
\* that ends done has had every step visited; and for [[A,B],[C]] the visit
\* order is exactly 1, 1.1, 1.2, 2, 2.1.
C18_DepthFirstPaths ==
    /\ \A i \in 1..Len(visited) : IsStep(plan_run.steps, visited[i])
    /\ \A i \in 1..(Len(visited) - 1) : Before(visited[i], visited[i + 1])
    /\ plan_run.status = "done" => Len(visited) = CountSteps(plan_run.steps)
    /\ (plan_run.steps = << <<<<>>, <<>>>>, << <<>> >> >> /\ plan_run.status = "done") =>
          visited = << <<1>>, <<1, 1>>, <<1, 2>>, <<2>>, <<2, 1>> >>

C18_Witness ==
    /\ plan_run.steps = << <<<<>>, <<>>>>, << <<>> >> >>
    /\ plan_run.status = "done"
    /\ visited = << <<1>>, <<1, 1>>, <<1, 2>>, <<2>>, <<2, 1>> >>

\* C13: no command that the deny-list matches is ever dispatched to a tool
\* server: every request sent for a POST /command step carries a cmd that
\* _looks_dangerous does not match.
C13_NoDangerousDispatch ==
    is_command_call(call.method, call.path) =>
        \A i \in 1..Len(dispatched) : ~looks_dangerous(dispatched[i].cmd)

\* C14: for a POST /command step, the reasoner is consulted for the first
\* time by the step that sends the third request, after the first
\* MAX_ATTEMPTS requests all failed at command level, and those requests all
\* carry the step's own body; before that, every request carries that body.
C14_ReasonerAfterMaxAttempts ==
    /\ [](consulted = 0 =>
            /\ Len(dispatched) <= MAX_ATTEMPTS_PER_COMMAND_STEP
            /\ \A i \in 1..Len(dispatched) : dispatched[i].cmd = body)
    /\ [](consulted >= 1 =>
            /\ Len(dispatched) >= MAX_ATTEMPTS_PER_COMMAND_STEP
            /\ \A i \in 1..MAX_ATTEMPTS_PER_COMMAND_STEP :
                  dispatched[i] = [cmd |-> body, how |-> "failed"])
    /\ [][(consulted = 0 /\ consulted' = 1) =>
            /\ Len(dispatched') = MAX_ATTEMPTS_PER_COMMAND_STEP
            /\ attempt = MAX_ATTEMPTS_PER_COMMAND_STEP]_vars

C14_Witness ==
    /\ consulted = 1
    /\ ipc = "loop"
    /\ Len(dispatched) = MAX_ATTEMPTS_PER_COMMAND_STEP
    /\ \A i \in 1..Len(dispatched) : dispatched[i] = [cmd |-> body, how |-> "failed"]
    /\ current_body # body

\* the answers of the reasoner's model that the claim lists: no tool call, an
\* action other than retry, an empty cmd, the prior command again, a cmd on
\* the deny-list in any letter case
Refused(answer, prev_cmd) ==
    \/ answer.action # "retry"
    \/ answer.cmd \in {<<>>, prev_cmd, <<" ">> \o prev_cmd}
    \/ answer.cmd \in {<<"m", "k", "f", "s">>, <<"x", " ", "M", "K", "F", "S">>}

\* the call returns the failed answer with step_err, having sent nothing after it
RefusalReturns(sc, res) ==
    /\ ipc' = "returned"
    /\ last_emit'.kind = "step_err"
    /\ ret' = [status_code |-> sc, result |-> res]
    /\ dispatched' = Append(dispatched, [cmd |-> current_body, how |-> "failed"])
    /\ current_body' = current_body
    /\ attempt' = attempt

C30_OneReasonedRetry ==
    /\ consulted <= 1
    /\ Len(dispatched) <= MAX_ATTEMPTS_PER_COMMAND_STEP + 1

\* C31: when a proposal of the reasoner was accepted, the body recorded for the
\* step in the stored plan is the body that was dispatched last.
C31_RepairedBodyIsRecorded ==
    (ipc = "returned" /\ \E i \in DOMAIN dispatched : dispatched[i].cmd # body) =>
        stored_step_body = dispatched[Len(dispatched)].cmd

\* the dotted paths of the steps of a plan with at most two steps per level
\* and two levels, as _flatten_steps writes them
DottedPaths == {"1", "1.1", "1.2", "2", "2.1", "2.2"}

\* C32: the current_step_path an emit stores in the run record is the dotted
\* depth-first path of the step being executed.
C32_EmitStoresDottedPath ==
    last_emit.kind # Nil => last_emit.step_path \in DottedPaths

\* what a request handler can change outside http
handler_vars == <<runs, chat_state, task, worker, cas_true, started, messages>>

StepKinds == {"step_start", "step_ok", "step_err"}

\* C35: an emit is atomic for a reader: whenever the run record shows the
\* event of an emit, the envelope of that emit is the last one of the run in
\* the chat log, and the other way round.
C35_EmitIsAtomic ==
    \A r \in RunIds :
        /\ runs[r].last_event \in StepKinds =>
              /\ messages[r] # <<>>
              /\ messages[r][Len(messages[r])] = runs[r].last_event
        /\ messages[r] # <<>> =>
              runs[r].last_event = messages[r][Len(messages[r])]

\* C36: once the runner has written a terminal status for a run, no request
\* of that run goes to a tool server and the run's execution no longer changes
\* last_event or current_step_path of its record.
C36_QuietAfterTerminal ==
    [][\A r \in RunIds :
          (runs[r].status \in {"done", "error"} /\ task[r] \in {"finished", "cancelled"}) =>
             /\ runs'[r].last_event = runs[r].last_event
             /\ runs'[r].current_step_path = runs[r].current_step_path
             /\ ~(worker[r] = "ready" /\ worker'[r] = "invoking")]_vars

\* a runner of r exists: its task was created and has not ended
Live(r) == task[r] \in {"created", "waiting"}

\* C37: api_send never clears the active_run_id of a run whose runner is
\* live: after any message, a chat whose active_run_id named such a run still
\* has an active run.
C37_SendKeepsLiveActive ==
    [][\A c \in ChatIds :
          (/\ http'.op = "send"
           /\ chat_state[c].active_run_id # NoRun
           /\ Live(chat_state[c].active_run_id)) =>
             chat_state'[c].active_run_id # NoRun]_vars

\* r was superseded: its chat got a newer proposal
Superseded(r) ==
    \E q \in RunIds :
        q > r /\ runs[q].status # "absent" /\ runs[q].chat_id = runs[r].chat_id

\* C38: a confirm word sent while pending_run_id is null never moves a
\* superseded draft to queued.
C38_OrphanConfirmStartsNoStaleDraft ==
    [][\A r \in RunIds :
          (/\ http'.op = "send" /\ http'.text = "confirm"
           /\ chat_state[http'.chat_id].pending_run_id = NoRun
           /\ runs[r].status = "draft" /\ runs'[r].status = "queued") =>
             ~Superseded(r)]_vars

\* C39: when the executor returns a plan with status done, every step of the
\* plan, substeps included, has status done or skipped.
C39_DonePlanHasNoOpenStep ==
    (xpc \in {"returned", "stored"} /\ plan_run.status = "done") =>
        \A q \in DOMAIN steps : steps[q].status \in {"done", "skipped"}

\* C40: with a loop, a worker and tools that keep going, every run that a
\* confirmation moved to queued ends with status done or error, and from then
\* on the active_run_id of its chat is not that run.
C40_ConfirmedRunEnds ==
    \A r \in RunIds :
        (runs[r].status = "queued") ~>
            [](/\ runs[r].status \in {"done", "error"}
               /\ chat_state[runs[r].chat_id].active_run_id # r)

====
